---- MODULE Spec2Model ----
(***************************************************************************)
(* Ingestion and reconciliation core of linkedin-analytics (app/ingest.py) *)
(* with the persistent entities of app/models.py and the callers of        *)
(* app/routes/upload.py and app/routes/api.py.                             *)
(*                                                                         *)
(* The durable store is the record db; every table is a sequence in        *)
(* primary-key order (row i has id i), so Query.first() without ORDER BY   *)
(* is the row of lowest id, as SQLite's table scan returns it.             *)
(* The SQLAlchemy session is configured with autoflush=False               *)
(* (app/database.py:45): a query sees the rows flushed so far, not the     *)
(* objects added or the attributes changed since the last flush.           *)
(***************************************************************************)
EXTENDS Integers, Sequences, FiniteSets, TLC

\* ------------------------------------------------------------------ bounds
MaxCount == 2
NumDates == 2
MaxOps == 3

\* ------------------------------------------------------- values and nulls
NULL == "NULL"
NoPost == 0
NoHour == -1
Dates == 1..NumDates
NoDate == 0

Truthy(s) == s # NULL /\ s # ""

Max(a, b) == IF a >= b THEN a ELSE b

FirstIdx(rows, P(_)) ==
    IF \E i \in 1..Len(rows) : P(rows[i])
    THEN CHOOSE i \in 1..Len(rows) :
            /\ P(rows[i])
            /\ \A j \in 1..(i - 1) : ~P(rows[j])
    ELSE 0

\* A URL cell: the URN subtype it embeds, the trailing numeric id, and
\* whether the text starts with http.  BareUrn is a cell that holds the URN
\* alone.
NoUrl == [sub |-> "none", num |-> NULL, http |-> FALSE]
Url(sub, num) == [sub |-> sub, num |-> num, http |-> TRUE]
BareUrn(sub, num) == [sub |-> sub, num |-> num, http |-> FALSE]

\* engagement_rate is a quotient; it is kept as numerator and denominator.
Rate(n, d) == IF d > 0 THEN [n |-> n, d |-> d] ELSE [n |-> 0, d |-> 1]

\* --------------------------------------------------------------- entities
BlankPost ==
    [lid |-> NULL, url |-> NoUrl, draft_id |-> NULL, title |-> NULL,
     date |-> NoDate, ptype |-> NULL,
     imp |-> 0, reach |-> 0, react |-> 0, comm |-> 0, shares |-> 0,
     clicks |-> 0, er |-> Rate(0, 0), hour |-> NoHour,
     content |-> NULL, status |-> NULL,
     saves |-> 0, sends |-> 0, pviews |-> 0, fgained |-> 0, reposts |-> 0,
     topic |-> NULL, content_format |-> NULL, hook_style |-> NULL,
     length_bucket |-> NULL]

recalculate_engagement_rate(p) ==
    [p EXCEPT !.er = IF p.imp > 0
                     THEN Rate(p.react + p.comm + p.shares, p.imp)
                     ELSE Rate(0, 0)]

EmptyDb ==
    [posts |-> <<>>, daily |-> <<>>, followers |-> <<>>, demos |-> <<>>,
     pdemos |-> <<>>, uploads |-> <<>>]

\* ------------------------------------------------------------------ files
\* A file on disk: whether the path exists, its suffix, and its content.
\* The content carries its size class and, when it is a readable workbook,
\* the workbook.  compute_file_hash digests the bytes only, so two paths
\* with the same content have the same hash.
NoSide == [url |-> NoUrl, date |-> NoDate, val |-> 0]
Side(u, d, v) == [url |-> u, date |-> d, val |-> v]
TopRow(l, r) == [l |-> l, r |-> r]

NoPerf ==
    [url |-> NoUrl, date |-> NoDate, hour |-> NoHour, imp |-> 0, reach |-> 0,
     react |-> 0, comm |-> 0, reposts |-> 0, saves |-> 0, sends |-> 0,
     pviews |-> 0, fgained |-> 0]

\* A sheet name as the workbook spells it: its letters (given in capitals),
\* the way they are written, and whether blanks surround them.  The ways of
\* writing are "upper", "lower", "title" (capitalised words) and "longs":
\* lower case with the long s (U+017F) for s.
SheetName(text, case, padded) == [text |-> text, case |-> case, padded |-> padded]

\* A string literal of the source written in capitals.
Literal(text) == SheetName(text, "upper", FALSE)

\* str.strip, str.upper and str.lower.  The long s is a lower-case letter:
\* str.lower leaves it and str.upper maps it to S.
strip(s) == [s EXCEPT !.padded = FALSE]
upper(s) == [s EXCEPT !.case = "upper"]
lower(s) == IF s.case = "longs" THEN s ELSE [s EXCEPT !.case = "lower"]

\* enghdr is the first cell of the first row of the ENGAGEMENT sheet.
BlankWb ==
    [sheetnames |-> {}, top |-> <<>>, enghdr |-> Literal("DATE"), eng |-> <<>>,
     total |-> 0, fol |-> <<>>, dem |-> <<>>, perf |-> NoPerf, pdem |-> <<>>]

Content(size, readable, wb) == [size |-> size, readable |-> readable, wb |-> wb]
File(exists, suffix, content) ==
    [exists |-> exists, suffix |-> suffix, content |-> content]

MAX_FILE_SIZE_BYTES == 52428800
ALLOWED_EXTENSIONS == {".xlsx", ".xls", ".csv"}
SHEET_DISCOVERY == "DISCOVERY"
SHEET_ENGAGEMENT == "ENGAGEMENT"
SHEET_TOP_POSTS == "TOP POSTS"
SHEET_FOLLOWERS == "FOLLOWERS"
SHEET_DEMOGRAPHICS == "DEMOGRAPHICS"

compute_file_hash(file) == file.content

\* validate_upload: the first failing check, or "ok".
validate_upload(file) ==
    IF ~file.exists THEN "File not found"
    ELSE IF file.content.size = 0 THEN "Uploaded file is empty."
    ELSE IF file.content.size > MAX_FILE_SIZE_BYTES THEN "File exceeds maximum size"
    ELSE IF file.suffix \notin ALLOWED_EXTENSIONS THEN "Unsupported file type"
    ELSE "ok"

\* _load_workbook succeeds on a readable workbook; openpyxl refuses a path
\* whose suffix it does not support (.xls, .csv, ...) and any other content.
LoadOk(file) ==
    /\ file.exists
    /\ file.suffix = ".xlsx"
    /\ file.content.readable

_extract_activity_id(url) ==
    IF url.sub = "activity" THEN url.num ELSE NULL

_extract_urn_from_url(url) ==
    IF url.sub \in {"share", "activity"} THEN url.num ELSE NULL

\* _get_sheet finds a sheet: some name of the workbook equals the wanted
\* one once stripped, both taken in capitals.
HasSheet(wb, name) ==
    \E s \in wb.sheetnames : upper(strip(s)) = upper(Literal(name))

\* Variant that compares the sheet names as they are spelled.
DetectAsSpelled(wb) ==
    IF /\ lower(Literal("PERFORMANCE")) \in wb.sheetnames
       /\ lower(Literal("TOP DEMOGRAPHICS")) \in wb.sheetnames
    THEN "per_post"
    ELSE IF /\ lower(Literal("DISCOVERY")) \in wb.sheetnames
            /\ lower(Literal("ENGAGEMENT")) \in wb.sheetnames
    THEN "aggregate"
    ELSE "unknown"

_detect_xlsx_format(wb) ==
    LET sheet_names == {lower(strip(s)) : s \in wb.sheetnames}
    IN  IF /\ lower(Literal("PERFORMANCE")) \in sheet_names
           /\ lower(Literal("TOP DEMOGRAPHICS")) \in sheet_names
        THEN "per_post"
        ELSE IF /\ lower(Literal("DISCOVERY")) \in sheet_names
                /\ lower(Literal("ENGAGEMENT")) \in sheet_names
        THEN "aggregate"
        ELSE "unknown"

\* ---------------------------------------------------------- sheet parsers
\* Variant in which a record keeps the values of the side that created it.
TopSideFirstOnly(recs, side, left) ==
    LET aid == _extract_activity_id(side.url)
    IN  IF ~side.url.http \/ aid = NULL \/ side.date = NoDate
           \/ \E i \in 1..Len(recs) : recs[i].lid = aid
        THEN recs
        ELSE Append(recs, [lid |-> aid, url |-> side.url, date |-> side.date,
                           imp |-> IF left THEN 0 ELSE side.val,
                           eng |-> IF left THEN side.val ELSE 0])

\* records_by_url of _parse_top_posts_sheet, in insertion order, after one
\* column group of one row: the cell counts when it starts with http, an
\* activity id is found in it and the date parses.
TopSide(recs, side, left) ==
    LET aid == _extract_activity_id(side.url)
        k == FirstIdx(recs, LAMBDA r : r.lid = aid)
    IN  IF ~side.url.http \/ aid = NULL \/ side.date = NoDate
        THEN recs
        ELSE IF k = 0
        THEN Append(recs, [lid |-> aid, url |-> side.url, date |-> side.date,
                           imp |-> IF left THEN 0 ELSE side.val,
                           eng |-> IF left THEN side.val ELSE 0])
        ELSE IF left
        THEN [recs EXCEPT ![k].eng = side.val]
        ELSE [recs EXCEPT ![k].imp = side.val]

RECURSIVE TopScan(_, _)
TopScan(rows, recs) ==
    IF rows = <<>> THEN recs
    ELSE TopScan(Tail(rows),
                 TopSide(TopSide(recs, Head(rows).l, TRUE), Head(rows).r, FALSE))

_parse_top_posts_sheet(rows) ==
    LET recs == TopScan(rows, <<>>)
    IN  [i \in 1..Len(recs) |->
            [date |-> recs[i].date, title |-> NULL, lid |-> recs[i].lid,
             url |-> NoUrl, imp |-> recs[i].imp, react |-> recs[i].eng,
             comm |-> 0, shares |-> 0, clicks |-> 0, reach |-> 0,
             er |-> Rate(recs[i].eng, recs[i].imp), ptype |-> NULL]]

\* The rows below the header of the ENGAGEMENT sheet: the first cell is the
\* date, the second the impressions, the third the engagements.
RECURSIVE EngagementRows(_)
EngagementRows(rows) ==
    IF rows = <<>> THEN <<>>
    ELSE LET r == Head(rows)
             rest == EngagementRows(Tail(rows))
         IN  IF r.date = NoDate THEN rest
             ELSE <<[date |-> r.date, post_id |-> NoPost, imp |-> r.imp,
                     engagements |-> r.eng]>> \o rest

\* Rows count only below a row whose first cell is "Date"; without such a
\* header every row is skipped.
_parse_engagement_sheet(wb) ==
    IF upper(strip(wb.enghdr)) = Literal("DATE")
    THEN EngagementRows(wb.eng) ELSE <<>>

Warn(msg, about) == [msg |-> msg, about |-> about]

RECURSIVE FollowerRows(_, _)
FollowerRows(rows, total) ==
    IF rows = <<>> THEN <<>>
    ELSE LET r == Head(rows)
             rest == FollowerRows(Tail(rows), total)
         IN  IF r.date = NoDate THEN rest
             ELSE <<[date |-> r.date, total |-> total, new |-> r.new]>> \o rest

_parse_followers_sheet(wb) ==
    LET recs == FollowerRows(wb.fol, wb.total)
    IN  [records |-> recs,
         warnings |-> IF recs = <<>> /\ wb.total > 0
                      THEN <<Warn("no daily data rows found.", SHEET_FOLLOWERS)>>
                      ELSE <<>>]

\* A percentage cell.  Fractions are kept in hundredths of a percent: 0.31
\* is 3100 and 0.005 is 50.  The cell holds a number, a text with "<" such
\* as "< 1%", a text "n%", a text that spells a number, any other text, or
\* nothing.
Number(v) == [kind |-> "number", n |-> v]
LessThan == [kind |-> "less than", n |-> 0]
Percent(n) == [kind |-> "percent", n |-> n]
NumStr(v) == [kind |-> "numeric text", n |-> v]
Text == [kind |-> "text", n |-> 0]
Empty == [kind |-> "none", n |-> 0]

\* The percentage of _parse_per_post_demographics: a number as it is, 0.005
\* for a text with "<", else the text without its trailing "%" read as a
\* number and divided by 100, 0.0 when it does not read as one.
percentage(pct_raw) ==
    CASE pct_raw.kind = "number" -> pct_raw.n
      [] pct_raw.kind = "less than" -> 50
      [] pct_raw.kind = "percent" -> (pct_raw.n * 10000) \div 100
      [] pct_raw.kind = "numeric text" -> pct_raw.n \div 100
      [] OTHER -> 0

\* _safe_float: float(value), 0.0 when value is None or float() refuses it.
_safe_float(value) ==
    IF value.kind \in {"number", "numeric text"} THEN value.n ELSE 0

RECURSIVE DemoRows(_, _)
DemoRows(rows, today) ==
    IF rows = <<>> THEN <<>>
    ELSE LET r == Head(rows)
             rest == DemoRows(Tail(rows), today)
         IN  IF ~Truthy(r.value) THEN rest
             ELSE <<[date |-> today, category |-> r.category,
                     value |-> r.value, pct |-> _safe_float(r.pct)]>> \o rest

_parse_demographics_sheet(wb, today) ==
    LET recs == DemoRows(wb.dem, today)
    IN  [records |-> recs,
         warnings |-> IF recs = <<>>
                      THEN <<Warn("could not parse any demographic records.",
                                  SHEET_DEMOGRAPHICS)>>
                      ELSE <<>>]

EmptyParsed ==
    [posts |-> <<>>, daily_metrics |-> <<>>, follower_snapshots |-> <<>>,
     demographic_snapshots |-> <<>>, warnings |-> <<>>]

\* Variant that reports no missing sheet.
NotFoundSilent(wb, name) == <<>>

NotFound(wb, name) ==
    IF HasSheet(wb, name) THEN <<>> ELSE <<Warn("Sheet not found.", name)>>

\* The parsed export, given the records and warnings of the FOLLOWERS and
\* DEMOGRAPHICS sheets.
ParseSheets(wb, fol, dem) ==
    [posts |-> IF HasSheet(wb, SHEET_TOP_POSTS)
               THEN _parse_top_posts_sheet(wb.top) ELSE <<>>,
     daily_metrics |-> IF HasSheet(wb, SHEET_ENGAGEMENT)
               THEN _parse_engagement_sheet(wb) ELSE <<>>,
     follower_snapshots |-> IF HasSheet(wb, SHEET_FOLLOWERS)
               THEN fol.records ELSE <<>>,
     demographic_snapshots |-> IF HasSheet(wb, SHEET_DEMOGRAPHICS)
               THEN dem.records ELSE <<>>,
     warnings |->
        NotFound(wb, SHEET_DISCOVERY) \o NotFound(wb, SHEET_ENGAGEMENT)
        \o NotFound(wb, SHEET_TOP_POSTS)
        \o (IF HasSheet(wb, SHEET_FOLLOWERS) THEN fol.warnings
            ELSE NotFound(wb, SHEET_FOLLOWERS))
        \o (IF HasSheet(wb, SHEET_DEMOGRAPHICS) THEN dem.warnings
            ELSE NotFound(wb, SHEET_DEMOGRAPHICS))]

\* Variant that reads a .csv file as it reads a workbook.
ParseCsvAsWorkbook(file, today) ==
    IF validate_upload(file) # "ok" \/ ~file.content.readable
       \/ file.content.wb.sheetnames = {}
    THEN [exc |-> "IngestError", opened |-> validate_upload(file) = "ok",
          parsed |-> EmptyParsed]
    ELSE [exc |-> "none", opened |-> TRUE,
          parsed |-> ParseSheets(file.content.wb,
                                 _parse_followers_sheet(file.content.wb),
                                 _parse_demographics_sheet(file.content.wb, today))]

\* parse_linkedin_export: exc is "none" or "IngestError".
parse_linkedin_export(file, today) ==
    IF validate_upload(file) # "ok"
    THEN [exc |-> "IngestError", opened |-> FALSE, parsed |-> EmptyParsed]
    ELSE IF file.suffix = ".csv"
    THEN [exc |-> "none", opened |-> FALSE,
          parsed |-> [EmptyParsed EXCEPT !.warnings =
              <<Warn("CSV files are accepted. No data parsed.", ".csv")>>]]
    ELSE IF ~LoadOk(file)
    THEN [exc |-> "IngestError", opened |-> TRUE, parsed |-> EmptyParsed]
    ELSE IF file.content.wb.sheetnames = {}
    THEN [exc |-> "IngestError", opened |-> TRUE, parsed |-> EmptyParsed]
    ELSE [exc |-> "none", opened |-> TRUE,
          parsed |-> ParseSheets(file.content.wb,
                                 _parse_followers_sheet(file.content.wb),
                                 _parse_demographics_sheet(file.content.wb, today))]

\* ---------------------------------------------------------------- upserts
\* _upsert_post on one record.  base is what the queries see (the rows as
\* last flushed), cur the same rows as the session holds them in memory,
\* new the objects added and not yet flushed.
\* Variant without the date-only fallback.
MatchPostNoFallback(base, r) ==
    LET byId == IF Truthy(r.lid)
                THEN FirstIdx(base, LAMBDA p : p.lid = r.lid) ELSE 0
    IN  IF byId = 0 /\ r.date # NoDate /\ Truthy(r.title)
        THEN FirstIdx(base, LAMBDA p : p.date = r.date /\ p.title = r.title)
        ELSE byId

\* Variant that consults the date-only match before the id.
MatchPostDateFirst(base, r) ==
    LET byDate == IF r.date # NoDate /\ ~Truthy(r.title)
                  THEN FirstIdx(base, LAMBDA p : p.date = r.date /\ p.title = NULL)
                  ELSE 0
    IN  IF byDate # 0 THEN byDate
        ELSE IF Truthy(r.lid)
        THEN FirstIdx(base, LAMBDA p : p.lid = r.lid) ELSE 0

MatchPost(base, r) ==
    LET byId == IF Truthy(r.lid)
                THEN FirstIdx(base, LAMBDA p : p.lid = r.lid) ELSE 0
        byKey == IF byId = 0 /\ r.date # NoDate /\ Truthy(r.title)
                 THEN FirstIdx(base, LAMBDA p : p.date = r.date /\ p.title = r.title)
                 ELSE byId
    IN  IF byKey = 0 /\ r.date # NoDate /\ ~Truthy(r.title)
        THEN FirstIdx(base, LAMBDA p : p.date = r.date /\ p.title = NULL)
        ELSE byKey

\* Variant that links every post with content, whatever its status.
LinkStatusAnyContent(p) ==
    IF Truthy(p.content)
    THEN [p EXCEPT !.status = "analytics_linked"] ELSE p

LinkStatus(p) ==
    IF p.status = "published" /\ Truthy(p.content)
    THEN [p EXCEPT !.status = "analytics_linked"] ELSE p

\* Variant that takes the title of the incoming record as well.
MergePostRetitled(p, r) ==
    LinkStatus(recalculate_engagement_rate(
        [p EXCEPT !.imp = Max(p.imp, r.imp), !.reach = Max(p.reach, r.reach),
                  !.react = Max(p.react, r.react), !.comm = Max(p.comm, r.comm),
                  !.shares = Max(p.shares, r.shares),
                  !.clicks = Max(p.clicks, r.clicks),
                  !.title = r.title]))

\* Variant that adds the incoming counters to the stored ones.
MergePostAdditive(p, r) ==
    recalculate_engagement_rate(
        [p EXCEPT !.imp = p.imp + r.imp, !.reach = p.reach + r.reach,
                  !.react = p.react + r.react, !.comm = p.comm + r.comm,
                  !.shares = p.shares + r.shares, !.clicks = p.clicks + r.clicks])

MergePost(p, r) ==
    LinkStatus(recalculate_engagement_rate(
        [p EXCEPT !.imp = Max(p.imp, r.imp),
                  !.reach = Max(p.reach, r.reach),
                  !.react = Max(p.react, r.react),
                  !.comm = Max(p.comm, r.comm),
                  !.shares = Max(p.shares, r.shares),
                  !.clicks = Max(p.clicks, r.clicks),
                  !.lid = IF Truthy(r.lid) /\ ~Truthy(p.lid) THEN r.lid ELSE p.lid,
                  !.url = IF r.url # NoUrl /\ p.url = NoUrl THEN r.url ELSE p.url,
                  !.ptype = IF Truthy(r.ptype) /\ ~Truthy(p.ptype)
                            THEN r.ptype ELSE p.ptype]))

NewPost(r) ==
    [BlankPost EXCEPT !.lid = r.lid, !.url = r.url, !.title = r.title,
                      !.date = r.date, !.ptype = r.ptype, !.imp = r.imp,
                      !.reach = r.reach, !.react = r.react, !.comm = r.comm,
                      !.shares = r.shares, !.clicks = r.clicks, !.er = r.er]

_upsert_post(base, s, r) ==
    LET k == MatchPost(base, r)
    IN  IF k # 0
        THEN [s EXCEPT !.cur[k] = MergePost(s.cur[k], r)]
        ELSE [s EXCEPT !.new = Append(s.new, NewPost(r))]

_upsert_daily_metric(base, s, r) ==
    LET k == FirstIdx(base, LAMBDA m : m.post_id = r.post_id /\ m.date = r.date)
    IN  IF k # 0
        THEN [s EXCEPT !.cur[k].imp = Max(s.cur[k].imp, r.imp)]
        ELSE [s EXCEPT !.new = Append(s.new,
                [post_id |-> r.post_id, date |-> r.date, imp |-> r.imp,
                 reach |-> 0, react |-> 0, comm |-> 0, shares |-> 0,
                 clicks |-> 0])]

\* Variant that keeps the higher of the stored and the incoming values.
UpsertFollowerMax(base, s, r) ==
    LET k == FirstIdx(base, LAMBDA f : f.date = r.date)
    IN  IF k # 0
        THEN [s EXCEPT !.cur[k].total = Max(@, r.total),
                       !.cur[k].new = Max(@, r.new)]
        ELSE [s EXCEPT !.new = Append(s.new, r)]

_upsert_follower_snapshot(base, s, r) ==
    LET k == FirstIdx(base, LAMBDA f : f.date = r.date)
    IN  IF k # 0
        THEN [s EXCEPT !.cur[k].total = r.total, !.cur[k].new = r.new]
        ELSE [s EXCEPT !.new = Append(s.new, r)]

_upsert_demographic_snapshot(base, s, r) ==
    LET k == FirstIdx(base, LAMBDA d : /\ d.date = r.date
                                       /\ d.category = r.category
                                       /\ d.value = r.value)
    IN  IF k # 0
        THEN [s EXCEPT !.cur[k].pct = r.pct]
        ELSE [s EXCEPT !.new = Append(s.new, r)]

\* One loop of load_to_db: every record upserted against the same flushed
\* rows, since nothing is flushed inside the loop.
RECURSIVE UpsertAll(_, _, _, _)
UpsertAll(Op(_, _, _), base, s, recs) ==
    IF recs = <<>> THEN s
    ELSE UpsertAll(Op, base, Op(base, s, Head(recs)), Tail(recs))

Loop(Op(_, _, _), table, recs) ==
    LET s == UpsertAll(Op, table, [cur |-> table, new |-> <<>>], recs)
    IN  s.cur \o s.new

\* Uniqueness constraints of app/models.py, checked when rows are flushed.
Distinct(rows, Key(_)) ==
    \A i, j \in 1..Len(rows) : Key(rows[i]) = Key(rows[j]) => i = j

PostsUnique(posts) ==
    \A i, j \in 1..Len(posts) :
        posts[i].lid # NULL /\ posts[i].lid = posts[j].lid => i = j

FollowersUnique(rows) == Distinct(rows, LAMBDA f : f.date)

DemosUnique(rows) == Distinct(rows, LAMBDA d : <<d.date, d.category, d.value>>)

PostDemosUnique(rows) ==
    Distinct(rows, LAMBDA d : <<d.post_id, d.category, d.value>>)

NoStats ==
    [posts_upserted |-> 0, daily_metrics_upserted |-> 0,
     follower_snapshots_upserted |-> 0, demographic_snapshots_upserted |-> 0,
     warnings |-> <<>>]

total_records(st) ==
    st.posts_upserted + st.daily_metrics_upserted
    + st.follower_snapshots_upserted + st.demographic_snapshots_upserted

\* The four loops of load_to_db, in order; each works on the rows the
\* session holds when it starts.
LoadStages == <<"posts", "daily", "followers", "demos">>

LoadStep(rows, parsed, stage) ==
    CASE stage = "posts" ->
            [rows EXCEPT !.posts = Loop(_upsert_post, rows.posts, parsed.posts)]
      [] stage = "daily" ->
            [rows EXCEPT !.daily = Loop(_upsert_daily_metric, rows.daily,
                                        parsed.daily_metrics)]
      [] stage = "followers" ->
            [rows EXCEPT !.followers = Loop(_upsert_follower_snapshot,
                                            rows.followers,
                                            parsed.follower_snapshots)]
      [] stage = "demos" ->
            [rows EXCEPT !.demos = Loop(_upsert_demographic_snapshot,
                                        rows.demos,
                                        parsed.demographic_snapshots)]

\* The rows load_to_db holds just before session.commit().
LoadRows(db, parsed) ==
    LoadStep(LoadStep(LoadStep(LoadStep(db, parsed, "posts"), parsed, "daily"),
                      parsed, "followers"), parsed, "demos")

\* session.flush() / session.commit() raise IntegrityError on a violated
\* constraint, outside every per-record try block.
CommitOk(rows) ==
    /\ PostsUnique(rows.posts)
    /\ FollowersUnique(rows.followers)
    /\ DemosUnique(rows.demos)
    /\ PostDemosUnique(rows.pdemos)

\* Variant of flush that makes the flushed rows durable.
FlushCommits(db, rows) == rows

\* The durable rows after session.flush(): the rows are sent to the
\* database inside the open transaction and nothing becomes durable.
flush(db, rows) == db

\* Variant of commit that keeps the posts when another table is refused.
CommitPartial(db, rows) ==
    IF CommitOk(rows) THEN rows ELSE [db EXCEPT !.posts = rows.posts]

\* The durable rows after session.commit(): all the rows of the session, or,
\* when a constraint refuses one of them, the rows as they were (the
\* transaction is rolled back).
commit(db, rows) == IF CommitOk(rows) THEN rows ELSE db

LoadStats(parsed) ==
    [posts_upserted |-> Len(parsed.posts),
     daily_metrics_upserted |-> Len(parsed.daily_metrics),
     follower_snapshots_upserted |-> Len(parsed.follower_snapshots),
     demographic_snapshots_upserted |-> Len(parsed.demographic_snapshots),
     warnings |-> parsed.warnings]

\* The end of a pipeline: the commit of the rows the session holds, the
\* exception it raises and the value returned (none when it raises).
Committed(db, rows, out, none) ==
    [db |-> commit(db, rows),
     exc |-> IF CommitOk(rows) THEN "none" ELSE "IntegrityError",
     out |-> IF CommitOk(rows) THEN out ELSE none]

load_to_db(db, parsed) ==
    Committed(db, LoadRows(db, parsed), LoadStats(parsed), NoStats)

\* ------------------------------------------------------- per-post pipeline
\* _parse_per_post_demographics: rows without a category or a value are
\* skipped.
RECURSIVE _parse_per_post_demographics(_)
_parse_per_post_demographics(rows) ==
    IF rows = <<>> THEN <<>>
    ELSE LET r == Head(rows)
             rest == _parse_per_post_demographics(Tail(rows))
         IN  IF ~Truthy(r.category) \/ r.value = NULL THEN rest
             ELSE <<[category |-> r.category, value |-> r.value,
                     pct |-> percentage(r.pct)]>> \o rest

\* The lookup of ingest_per_post_xlsx: the URN id first, then the post date
\* whatever the title.
MatchPerPost(posts, lid, date) ==
    LET byId == IF Truthy(lid)
                THEN FirstIdx(posts, LAMBDA p : p.lid = lid) ELSE 0
    IN  IF byId # 0 THEN byId
        ELSE FirstIdx(posts, LAMBDA p : p.date = date)

\* The existing post after the per-post metrics are written over it.
OverwritePost(p, perf) ==
    LinkStatus(recalculate_engagement_rate(
        [p EXCEPT !.imp = perf.imp, !.reach = perf.reach,
                  !.react = perf.react, !.comm = perf.comm,
                  !.reposts = perf.reposts, !.saves = perf.saves,
                  !.sends = perf.sends, !.pviews = perf.pviews,
                  !.fgained = perf.fgained,
                  !.hour = IF perf.hour # NoHour THEN perf.hour ELSE p.hour,
                  !.url = IF perf.url # NoUrl /\ p.url = NoUrl
                          THEN perf.url ELSE p.url]))

PerPostNew(perf, lid, date) ==
    recalculate_engagement_rate(
        [BlankPost EXCEPT !.lid = lid, !.url = perf.url, !.date = date,
                          !.hour = perf.hour, !.imp = perf.imp,
                          !.reach = perf.reach, !.react = perf.react,
                          !.comm = perf.comm, !.reposts = perf.reposts,
                          !.saves = perf.saves, !.sends = perf.sends,
                          !.pviews = perf.pviews, !.fgained = perf.fgained])

\* The demographics loop of ingest_per_post_xlsx on one row (r.post_id is the
\* id of the post found or created).
UpsertPostDemo(base, s, r) ==
    LET k == FirstIdx(base, LAMBDA d : /\ d.post_id = r.post_id
                                       /\ d.category = r.category
                                       /\ d.value = r.value)
    IN  IF k # 0
        THEN [s EXCEPT !.cur[k].pct = r.pct]
        ELSE [s EXCEPT !.new = Append(s.new, r)]

ForPost(rows, pid) ==
    [i \in 1..Len(rows) |->
        [post_id |-> pid, category |-> rows[i].category,
         value |-> rows[i].value, pct |-> rows[i].pct]]

\* The post rows after the find-or-create step, and the id of the post; k
\* is the row the lookup found, 0 when it found none.
FindOrCreate(posts, perf, lid, date, k) ==
    IF k # 0
    THEN [posts |-> [posts EXCEPT ![k] = OverwritePost(posts[k], perf)],
          post_id |-> k, created |-> FALSE]
    ELSE [posts |-> Append(posts, PerPostNew(perf, lid, date)),
          post_id |-> Len(posts) + 1, created |-> TRUE]

PerPostDate(perf, today) == IF perf.date # NoDate THEN perf.date ELSE today

PerPostPosts(posts, perf, today) ==
    FindOrCreate(posts, perf, _extract_urn_from_url(perf.url),
                 PerPostDate(perf, today),
                 MatchPerPost(posts, _extract_urn_from_url(perf.url),
                              PerPostDate(perf, today)))

NoRet == [post_id |-> NoPost, linkedin_post_id |-> NULL, created |-> FALSE]

\* The demographics loop for the post of id post_id.
PerPostDemos(rows, wb, post_id) ==
    [rows EXCEPT !.pdemos = Loop(UpsertPostDemo, rows.pdemos,
                        ForPost(_parse_per_post_demographics(wb.pdem), post_id))]

\* The rest of ingest_per_post_xlsx once the post is found or created.
PerPostFinish(db, wb, pp) ==
    Committed(db, PerPostDemos([db EXCEPT !.posts = pp.posts], wb, pp.post_id),
              [post_id |-> pp.post_id,
               linkedin_post_id |-> _extract_urn_from_url(wb.perf.url),
               created |-> pp.created],
              NoRet)

\* The rows ingest_per_post_xlsx holds just before session.commit().
PerPostRows(db, wb, today) ==
    PerPostDemos([db EXCEPT !.posts = PerPostPosts(db.posts, wb.perf, today).posts],
                 wb, PerPostPosts(db.posts, wb.perf, today).post_id)

ingest_per_post_xlsx(db, wb, today) ==
    IF ~HasSheet(wb, "PERFORMANCE") \/ ~HasSheet(wb, "TOP DEMOGRAPHICS")
    THEN [db |-> db, exc |-> "IngestError", out |-> NoRet]
    ELSE PerPostFinish(db, wb, PerPostPosts(db.posts, wb.perf, today))

\* ------------------------------------------------------------- ingest_file
NewUpload(filename, hash, n) ==
    [filename |-> filename, file_hash |-> hash, records_imported |-> n,
     status |-> "completed"]

\* Variant that compares the hash with the latest upload only.
UploadWithHashLatest(db, h) ==
    IF db.uploads # <<>> /\ db.uploads[Len(db.uploads)].file_hash = h
    THEN Len(db.uploads) ELSE 0

UploadWithHash(db, h) == FirstIdx(db.uploads, LAMBDA u : u.file_hash = h)

\* The format ingest_file detects; a workbook that does not load counts as
\* aggregate.
DetectedFormat(file) ==
    IF file.suffix \in {".xlsx", ".xls"}
    THEN IF LoadOk(file) THEN _detect_xlsx_format(file.content.wb)
         ELSE "aggregate"
    ELSE "none"

Result(db, exc, stages, stats) ==
    [db |-> db, exc |-> exc, stages |-> stages, stats |-> stats]

\* ingest_file up to the point where it starts to change the session, given
\* the outcome pe of parse_linkedin_export: the exception raised there
\* ("none" when it goes on), the format detected, the parsed export of the
\* aggregate pipeline and the stages gone through.
Prepared(db, file, pe) ==
    IF ~file.exists
    THEN [exc |-> "FileNotFoundError", fmt |-> "none", parsed |-> EmptyParsed,
          stages |-> <<"hash">>]
    ELSE IF UploadWithHash(db, compute_file_hash(file)) # 0
    THEN [exc |-> "DuplicateFileError", fmt |-> "none", parsed |-> EmptyParsed,
          stages |-> <<"hash", "duplicate-check">>]
    ELSE IF DetectedFormat(file) = "per_post"
    THEN [exc |-> "none", fmt |-> "per_post", parsed |-> EmptyParsed,
          stages |-> <<"hash", "duplicate-check", "open", "open">>]
    ELSE [exc |-> pe.exc, fmt |-> "aggregate", parsed |-> pe.parsed,
          stages |-> <<"hash", "duplicate-check">>
                     \o (IF file.suffix \in {".xlsx", ".xls"}
                         THEN <<"open">> ELSE <<>>)
                     \o <<"validate">>
                     \o (IF pe.opened THEN <<"open">> ELSE <<>>)]

Prepare(db, file, today) == Prepared(db, file, parse_linkedin_export(file, today))

\* The end of ingest_file after the pipeline res: the exception of the
\* pipeline (as ingest_file lets it out) or the Upload row and its commit.
Recorded(res, raised, stages, filename, h, stats) ==
    IF res.exc # "none"
    THEN Result(res.db, raised, stages \o <<"persist">>, NoStats)
    ELSE Result([res.db EXCEPT !.uploads =
                    Append(res.db.uploads,
                           NewUpload(filename, h, total_records(stats)))],
                "none", stages \o <<"persist", "upload">>, stats)

\* ingest_file after the checks and the parsing p.
Ingest(db, file, filename, today, p) ==
    IF p.exc # "none"
    THEN Result(db, p.exc, p.stages, NoStats)
    ELSE IF p.fmt = "per_post"
    THEN Recorded(ingest_per_post_xlsx(db, file.content.wb, today),
                  "IngestError", p.stages, filename, compute_file_hash(file),
                  [NoStats EXCEPT !.posts_upserted = 1])
    ELSE Recorded(load_to_db(db, p.parsed), "IntegrityError", p.stages,
                  filename, compute_file_hash(file), LoadStats(p.parsed))

\* ingest_file: the store it leaves, the exception it raises ("none" when it
\* returns) and the stages it went through, in order.
ingest_file(db, file, filename, today) ==
    Ingest(db, file, filename, today, Prepare(db, file, today))

\* ------------------------------------------------------------ compose API
\* POST /api/posts/publish with save_as_draft: a new draft, or the draft
\* fields written over the post with the given id.
save_draft(posts, post_id, title, today) ==
    IF post_id = NoPost
    THEN Append(posts, recalculate_engagement_rate(
            [BlankPost EXCEPT !.date = today, !.title = title,
                              !.content = "text", !.status = "draft"]))
    ELSE [posts EXCEPT ![post_id] = recalculate_engagement_rate(
            [@ EXCEPT !.content = "text", !.title = title,
                      !.status = IF @ = NULL \/ @ = "draft" THEN "draft" ELSE @])]

\* The full publish flow once LinkedIn has returned the activity id.
publish(posts, post_id, title, activity_id, today) ==
    IF post_id = NoPost
    THEN Append(posts, recalculate_engagement_rate(
            [BlankPost EXCEPT !.date = today, !.title = title,
                              !.lid = activity_id,
                              !.url = Url("share", activity_id),
                              !.content = "text", !.status = "published"]))
    ELSE [posts EXCEPT ![post_id] = recalculate_engagement_rate(
            [@ EXCEPT !.lid = activity_id, !.url = Url("share", activity_id),
                      !.content = "text", !.status = "published",
                      !.title = title, !.date = today])]

\* A query parameter the request does not carry.
NotGiven == "not given"

\* _normalize_cohort_value on a value already in lower case without blanks:
\* the empty string becomes null.
_normalize_cohort_value(value) == IF value = "" THEN NULL ELSE value

\* PATCH /api/posts/{post_id} with the draft id and the cohort fields: a
\* parameter that is given is written, the empty string as null.
update_post(posts, post_id, draft_id, topic, content_format, hook_style, length_bucket) ==
    [posts EXCEPT ![post_id] = recalculate_engagement_rate(
        [@ EXCEPT
            !.draft_id = IF draft_id = NotGiven THEN @
                         ELSE IF draft_id = "" THEN NULL ELSE draft_id,
            !.topic = IF topic = NotGiven THEN @
                      ELSE _normalize_cohort_value(topic),
            !.content_format = IF content_format = NotGiven THEN @
                               ELSE _normalize_cohort_value(content_format),
            !.hook_style = IF hook_style = NotGiven THEN @
                           ELSE _normalize_cohort_value(hook_style),
            !.length_bucket = IF length_bucket = NotGiven THEN @
                              ELSE _normalize_cohort_value(length_bucket)])]

\* ------------------------------------------------------------------ state
VARIABLES
    db,      \* the committed rows of every table
    today,   \* date.today()
    last,    \* the last call: its operation, input and outcome
    prev,    \* the committed rows before the last call
    nops,    \* steps taken so far
    tx,      \* the rows as the session holds them (db when nothing is pending)
    pc,      \* the steps the running ingest_file call has still to take
    sess,    \* the imports running side by side, each in its own session
    writer,  \* the session holding the write lock of the database, or 0
    oauth,   \* the oauth_tokens row, _refresh_lock and the threads after a token
    dedup    \* _publish_dedup_cache and the clock of its calls

vars == <<db, today, last, prev, nops, tx, pc, sess, writer, oauth, dedup>>

\* -------------------------------------------------------------- the token
\* Lifetimes and the refresh buffer, in seconds.
_ACCESS_TOKEN_LIFETIME_SECONDS == 5184000
_REFRESH_TOKEN_LIFETIME_SECONDS == 31536000
_REFRESH_BUFFER_SECONDS == 300

\* The threads inside get_valid_access_token at the same time.
NumThreads == 2
Threads == 1..NumThreads

\* What get_valid_access_token returns for None; the stored access tokens
\* are numbered from 1, a refresh stores the next number.
NoAccess == 0

\* The oauth_tokens row of provider "linkedin".
OAuthToken(access_token, access_expires_at, refresh_expires_at) ==
    [present |-> TRUE, access_token |-> access_token,
     access_token_expires_at |-> access_expires_at,
     refresh_token_expires_at |-> refresh_expires_at]

NoRow ==
    [present |-> FALSE, access_token |-> NoAccess,
     access_token_expires_at |-> 0, refresh_token_expires_at |-> 0]

\* The response of LinkedIn's token endpoint, or the error raised for it.
TokenResponse(expires_in) ==
    [ok |-> TRUE, expires_in |-> expires_in,
     refresh_token_expires_in |-> _REFRESH_TOKEN_LIFETIME_SECONDS]

OAuthTokenExchangeError == [ok |-> FALSE, expires_in |-> 0, refresh_token_expires_in |-> 0]

store_tokens(row, token_response, now) ==
    OAuthToken(row.access_token + 1, now + token_response.expires_in,
               now + token_response.refresh_token_expires_in)

\* The access token is good for longer than the buffer.
StillValid(row, now) ==
    row.access_token_expires_at - now > _REFRESH_BUFFER_SECONDS

\* Under the lock with the row as it was before the thread waited.
InLockStale(row, now, refresh_expires_at) ==
    IF refresh_expires_at <= now THEN "expired" ELSE "refresh"

\* Under the lock, after db.refresh(row): return the token another thread
\* stored, give up on an expired refresh token, or go on to refresh.
InLock(row, now, refresh_expires_at) ==
    IF StillValid(row, now) THEN "return"
    ELSE IF refresh_expires_at <= now THEN "expired"
    ELSE "refresh"

IdleThread ==
    [pc |-> "idle", now |-> 0, refresh_expires_at |-> 0, ret |-> NoAccess,
     seen |-> 0]

OauthState(row, clock) ==
    [row |-> row, clock |-> clock, lock |-> 0,
     th |-> [i \in Threads |-> IdleThread], refreshes |-> <<>>]

NoOauth == OauthState(NoRow, 0)

\* -------------------------------------------------------- the dedup cache
_DEDUP_WINDOW_SECONDS == 60

\* The size at which _check_dedup evicts the oldest entry.
DedupCapacity == 100

Entry(content_hash, time) == [content_hash |-> content_hash, time |-> time]

RECURSIVE PurgeExpired(_, _)
PurgeExpired(cache, now) ==
    IF cache # <<>> /\ now - Head(cache).time > _DEDUP_WINDOW_SECONDS
    THEN PurgeExpired(Tail(cache), now)
    ELSE cache

InCache(cache, content_hash) ==
    \E k \in 1..Len(cache) : cache[k].content_hash = content_hash

\* _check_dedup without the eviction at capacity.
CheckDedupKeepAll(cache, content_hash, now) ==
    IF InCache(PurgeExpired(cache, now), content_hash)
    THEN [cache |-> PurgeExpired(cache, now), ret |-> TRUE]
    ELSE [cache |-> Append(PurgeExpired(cache, now), Entry(content_hash, now)),
          ret |-> FALSE]

_check_dedup(cache, content_hash, now) ==
    IF InCache(PurgeExpired(cache, now), content_hash)
    THEN [cache |-> PurgeExpired(cache, now), ret |-> TRUE]
    ELSE [cache |-> Append(IF Len(PurgeExpired(cache, now)) >= DedupCapacity
                           THEN Tail(PurgeExpired(cache, now))
                           ELSE PurgeExpired(cache, now),
                           Entry(content_hash, now)),
          ret |-> FALSE]

\* The hashes the calls are made with: the oldest and the newest of a full
\* cache and two that are new to it.
DedupHashes == {1, DedupCapacity, DedupCapacity + 1, DedupCapacity + 2}

Never == -1

\* The cache after n calls with different hashes, the first half of them
\* thirty seconds before the second; `inserted` keeps for each hash the time
\* of the last call that inserted it.
Prefilled(n) ==
    [cache |-> [k \in 1..n |-> Entry(k, IF 2 * k <= n THEN 0 ELSE 30)],
     now |-> 30,
     inserted |-> [h \in 1..(DedupCapacity + 2) |->
                      IF h > n THEN Never ELSE IF 2 * h <= n THEN 0 ELSE 30],
     content_hash |-> 0, ret |-> FALSE, evicted |-> 0]

NoDedup == Prefilled(0)

NoFile == File(FALSE, "", Content(0, FALSE, BlankWb))

Sessions == {1, 2}

\* A session that has not begun.
IdleSession == [pc |-> "idle"]

NoSessions == [i \in Sessions |-> IdleSession]

NoCall ==
    [op |-> "none", file |-> NoFile, filename |-> "", today |-> NoDate,
     exc |-> "none", stages |-> <<>>, stats |-> NoStats,
     parsed |-> EmptyParsed, ret |-> "none"]

Init ==
    /\ db = EmptyDb
    /\ today = 1
    /\ last = NoCall
    /\ prev = EmptyDb
    /\ nops = 0
    /\ tx = EmptyDb
    /\ pc = <<>>
    /\ sess = NoSessions
    /\ writer = 0
    /\ oauth = NoOauth
    /\ dedup = NoDedup

\* handle_upload: ingest_file on the saved upload, in a session of its own.
IngestFile(file, filename) ==
    /\ nops < MaxOps
    /\ pc = <<>>
    /\ \E res \in {ingest_file(db, file, filename, today)} :
        /\ db' = res.db
        /\ tx' = res.db
        /\ prev' = db
        /\ last' = [op |-> "ingest_file", file |-> file, filename |-> filename,
                    today |-> today, exc |-> res.exc, stages |-> res.stages,
                    stats |-> res.stats, parsed |-> EmptyParsed,
                    ret |-> "none"]
        /\ nops' = nops + 1
        /\ UNCHANGED <<today, pc, sess, writer, oauth, dedup>>

SaveDraft(post_id, title) ==
    /\ nops < MaxOps
    /\ post_id \in 0..Len(db.posts)
    /\ db' = [db EXCEPT !.posts = save_draft(db.posts, post_id, title, today)]
    /\ tx' = db'
    /\ prev' = db
    /\ last' = [NoCall EXCEPT !.op = "save_draft", !.today = today]
    /\ nops' = nops + 1
    /\ UNCHANGED <<today, pc, sess, writer, oauth, dedup>>

\* LinkedIn issues an activity id no stored post carries yet.
Publish(post_id, title, activity_id) ==
    /\ nops < MaxOps
    /\ post_id \in 0..Len(db.posts)
    /\ \A i \in 1..Len(db.posts) : db.posts[i].lid # activity_id
    /\ db' = [db EXCEPT !.posts = publish(db.posts, post_id, title, activity_id, today)]
    /\ tx' = db'
    /\ prev' = db
    /\ last' = [NoCall EXCEPT !.op = "publish", !.today = today]
    /\ nops' = nops + 1
    /\ UNCHANGED <<today, pc, sess, writer, oauth, dedup>>

\* update_post on a stored post; tags holds the draft id and the four cohort
\* fields of the request.
UpdatePost(post_id, tags) ==
    /\ nops < MaxOps
    /\ post_id \in 1..Len(db.posts)
    /\ db' = [db EXCEPT !.posts =
                 update_post(db.posts, post_id, tags[1], tags[2], tags[3],
                             tags[4], tags[5])]
    /\ tx' = db'
    /\ prev' = db
    /\ last' = [NoCall EXCEPT !.op = "update_post", !.today = today]
    /\ nops' = nops + 1
    /\ UNCHANGED <<today, pc, sess, writer, oauth, dedup>>

\* load_to_db called with a ParsedExport built by the caller, in a session
\* of its own.
LoadToDb(parsed) ==
    /\ nops < MaxOps
    /\ pc = <<>>
    /\ \E res \in {load_to_db(db, parsed)} :
        /\ db' = res.db
        /\ tx' = res.db
        /\ prev' = db
        /\ last' = [NoCall EXCEPT !.op = "load_to_db", !.today = today,
                                  !.exc = res.exc, !.stats = res.out,
                                  !.parsed = parsed]
        /\ nops' = nops + 1
        /\ UNCHANGED <<today, pc, sess, writer, oauth, dedup>>

\* parse_linkedin_export on the file at hand.
ParseLinkedinExport ==
    /\ last.op = "none"
    /\ nops < MaxOps
    /\ \E res \in {parse_linkedin_export(last.file, today)} :
        /\ last' = [last EXCEPT !.op = "parse_linkedin_export",
                                !.today = today, !.exc = res.exc,
                                !.parsed = res.parsed]
        /\ nops' = nops + 1
        /\ UNCHANGED <<db, today, prev, tx, pc, sess, writer, oauth, dedup>>

\* _detect_xlsx_format on the workbook at hand.
DetectXlsxFormat ==
    /\ last.op = "none"
    /\ nops < MaxOps
    /\ last' = [last EXCEPT !.op = "_detect_xlsx_format",
                            !.ret = _detect_xlsx_format(last.file.content.wb)]
    /\ nops' = nops + 1
    /\ UNCHANGED <<db, today, prev, tx, pc, sess, writer, oauth, dedup>>

\* _parse_demographics_sheet and _parse_per_post_demographics, each on its
\* sheet of the workbook at hand.
ParseDemographics ==
    /\ last.op = "none"
    /\ nops < MaxOps
    /\ last' = [last EXCEPT
                    !.op = "demographics",
                    !.today = today,
                    !.ret = [aggregate |->
                                _parse_demographics_sheet(last.file.content.wb,
                                                          today).records,
                             per_post |->
                                _parse_per_post_demographics(
                                    last.file.content.wb.pdem)]]
    /\ nops' = nops + 1
    /\ UNCHANGED <<db, today, prev, tx, pc, sess, writer, oauth, dedup>>

\* A day passes between two calls.
Tick ==
    /\ nops < MaxOps
    /\ today < NumDates
    /\ today' = today + 1
    /\ nops' = nops + 1
    /\ UNCHANGED <<db, last, prev, tx, pc, sess, writer, oauth, dedup>>

\* ingest_file step by step.  The steps left after the checks and the
\* parsing: the loops of the pipeline, its commit, and the Upload row with
\* the commit of its own.
StepsOf(fmt) ==
    IF fmt = "per_post"
    THEN <<"post", "pdemos", "commit", "upload">>
    ELSE LoadStages \o <<"commit", "upload">>

\* Hashing, duplicate check, format detection and, on the aggregate
\* pipeline, validation and parsing: nothing of it touches the session.
TxBegin(file, filename) ==
    /\ nops < MaxOps
    /\ pc = <<>>
    /\ \E p \in {Prepare(db, file, today)} :
        /\ prev' = db
        /\ tx' = db
        /\ last' = [op |-> "ingest_file", file |-> file, filename |-> filename,
                    today |-> today,
                    exc |-> IF p.exc = "none" THEN "running" ELSE p.exc,
                    stages |-> p.stages, stats |-> NoStats,
                    parsed |-> EmptyParsed, ret |-> "none"]
        /\ pc' = IF p.exc = "none" THEN StepsOf(p.fmt) ELSE <<>>
        /\ nops' = nops + 1
        /\ UNCHANGED <<db, today, sess, writer, oauth, dedup>>

\* One loop of the pipeline; the loop over the posts ends with
\* session.flush().
TxUpsert ==
    /\ pc # <<>>
    /\ Head(pc) \notin {"commit", "upload"}
    /\ LET wb == last.file.content.wb
           parsed == parse_linkedin_export(last.file, last.today).parsed
           pp == PerPostPosts(prev.posts, wb.perf, last.today)
       IN  /\ tx' = CASE Head(pc) = "post" -> [tx EXCEPT !.posts = pp.posts]
                       [] Head(pc) = "pdemos" -> PerPostDemos(tx, wb, pp.post_id)
                       [] OTHER -> LoadStep(tx, parsed, Head(pc))
           /\ db' = IF Head(pc) \in {"post", "posts"} THEN flush(db, tx') ELSE db
    /\ pc' = Tail(pc)
    /\ UNCHANGED <<today, last, prev, nops, sess, writer, oauth, dedup>>

\* session.commit() of the pipeline.  A refused commit ends the call: the
\* per-post pipeline wraps the exception in IngestError, the aggregate one
\* lets it through.
TxCommit ==
    /\ pc # <<>>
    /\ Head(pc) = "commit"
    /\ db' = commit(db, tx)
    /\ tx' = db'
    /\ pc' = IF CommitOk(tx) THEN Tail(pc) ELSE <<>>
    /\ last' = [last EXCEPT
                    !.stages = @ \o <<"persist">>,
                    !.exc = IF CommitOk(tx) THEN @
                            ELSE IF DetectedFormat(last.file) = "per_post"
                            THEN "IngestError" ELSE "IntegrityError"]
    /\ UNCHANGED <<today, prev, nops, sess, writer, oauth, dedup>>

\* The Upload row is added and committed; ingest_file returns.
TxUpload ==
    /\ pc # <<>>
    /\ Head(pc) = "upload"
    /\ LET st == IF DetectedFormat(last.file) = "per_post"
                 THEN [NoStats EXCEPT !.posts_upserted = 1]
                 ELSE LoadStats(parse_linkedin_export(last.file, last.today).parsed)
       IN  /\ db' = [db EXCEPT !.uploads =
                        Append(db.uploads,
                               NewUpload(last.filename,
                                         compute_file_hash(last.file),
                                         total_records(st)))]
           /\ last' = [last EXCEPT !.stages = @ \o <<"upload">>,
                                   !.exc = "none", !.stats = st]
    /\ tx' = db'
    /\ pc' = <<>>
    /\ UNCHANGED <<today, prev, nops, sess, writer, oauth, dedup>>

\* The process dies in the middle of the call: what was not committed is
\* gone with the open transaction.
Crash ==
    /\ pc # <<>>
    /\ pc' = <<>>
    /\ tx' = db
    /\ last' = [last EXCEPT !.exc = "crashed",
                            !.stages = @ \o <<"crash", Head(pc)>>]
    /\ UNCHANGED <<db, today, prev, nops, sess, writer, oauth, dedup>>

\* Two imports side by side, each a call of ingest_file in a session of its
\* own on an export with one post record.  The lookup of _upsert_post reads
\* the committed row; the upsert changes the loaded object in memory.  The
\* session keeps the file, the post record r of the file, the row k its
\* lookup found (0 when none), that row as loaded and as merged in memory.
CBegin(i, file) ==
    /\ sess[i].pc = "idle"
    /\ \A j \in Sessions : sess[j].pc # "idle" => sess[j].file # file
    /\ \E p \in {Prepare(db, file, today)} :
        /\ p.exc = "none" /\ p.fmt = "aggregate"
        /\ Len(p.parsed.posts) = 1
        /\ LET r == p.parsed.posts[1]
               k == MatchPost(db.posts, r)
           IN  sess' = [sess EXCEPT ![i] =
                   [pc |-> "loaded", file |-> file, r |-> r, k |-> k,
                    loaded |-> IF k # 0 THEN db.posts[k] ELSE BlankPost,
                    merged |-> IF k # 0 THEN MergePost(db.posts[k], r)
                               ELSE NewPost(r)]]
        /\ UNCHANGED <<db, today, last, prev, nops, tx, pc, writer, oauth, dedup>>

\* The UPDATE a flush emits for a loaded object: the columns whose value
\* differs from the loaded one are set, the others are left as the row has
\* them.
ApplyUpdate(row, loaded, merged) ==
    [f \in DOMAIN row |-> IF merged[f] # loaded[f] THEN merged[f] ELSE row[f]]

\* session.flush() after the loop over the posts: the first statement takes
\* the write lock, which the session keeps until it commits.
CFlush(i) ==
    /\ sess[i].pc = "loaded"
    /\ writer = 0
    /\ writer' = i
    /\ sess' = [sess EXCEPT ![i].pc = "flushed"]
    /\ UNCHANGED <<db, today, last, prev, nops, tx, pc, oauth, dedup>>

\* The write lock is held by the other session for longer than the busy
\* timeout: the flush raises OperationalError and the import fails.
CBusy(i) ==
    /\ sess[i].pc = "loaded"
    /\ writer \notin {0, i}
    /\ sess' = [sess EXCEPT ![i].pc = "failed"]
    /\ UNCHANGED <<db, today, last, prev, nops, tx, pc, writer, oauth, dedup>>

\* session.commit() of load_to_db: the statements of the flush become
\* durable; an inserted post whose external id is stored by now is refused.
CCommit(i) ==
    /\ sess[i].pc = "flushed"
    /\ LET posts == IF sess[i].k # 0
                    THEN [db.posts EXCEPT ![sess[i].k] =
                            ApplyUpdate(@, sess[i].loaded, sess[i].merged)]
                    ELSE Append(db.posts, sess[i].merged)
       IN  /\ db' = IF PostsUnique(posts) THEN [db EXCEPT !.posts = posts] ELSE db
           /\ sess' = [sess EXCEPT ![i].pc =
                          IF PostsUnique(posts) THEN "committed" ELSE "failed"]
    /\ writer' = 0
    /\ UNCHANGED <<today, last, prev, nops, tx, pc, oauth, dedup>>

\* The Upload row of the import, added and committed.
CUpload(i) ==
    /\ sess[i].pc = "committed"
    /\ writer = 0
    /\ db' = [db EXCEPT !.uploads =
                 Append(db.uploads,
                        NewUpload("export.xlsx", compute_file_hash(sess[i].file), 1))]
    /\ sess' = [sess EXCEPT ![i].pc = "done"]
    /\ UNCHANGED <<today, last, prev, nops, tx, pc, writer, oauth, dedup>>

\* ----------------------------------------------------------------- inputs
ActIds == {"A1", "A2"}
ShareIds == {"B1"}
Titles == {"T1"}

AggSheets ==
    {Literal(n) : n \in {SHEET_DISCOVERY, SHEET_ENGAGEMENT, SHEET_TOP_POSTS,
                         SHEET_FOLLOWERS, SHEET_DEMOGRAPHICS}}

PerPostSheets == {Literal("PERFORMANCE"), Literal("TOP DEMOGRAPHICS")}

\* A TOP POSTS row naming the same post in both tables.
AggRow(id, d, imp, eng) ==
    TopRow(Side(Url("activity", id), d, eng), Side(Url("activity", id), d, imp))

AggWb(top, eng, total, fol, dem) ==
    [BlankWb EXCEPT !.sheetnames = AggSheets, !.top = top, !.eng = eng,
                    !.total = total, !.fol = fol, !.dem = dem]

PerPostWb(url, d, v, pdem) ==
    [BlankWb EXCEPT !.sheetnames = PerPostSheets, !.pdem = pdem,
                    !.perf = [NoPerf EXCEPT !.url = url, !.date = d, !.hour = 9,
                                            !.imp = v, !.reach = v, !.react = v,
                                            !.comm = v, !.reposts = v,
                                            !.saves = v, !.sends = v,
                                            !.pviews = v, !.fgained = v]]

Xlsx(wb) == File(TRUE, ".xlsx", Content(1000, TRUE, wb))

\* Aggregate exports with one TOP POSTS row, and one with two posts of the
\* same publish date.
TwoPostExport ==
    Xlsx(AggWb(<<AggRow("A1", 1, 1, 1), AggRow("A2", 1, 1, 1)>>,
               <<[date |-> 1, imp |-> 1, eng |-> 0],
                 [date |-> 1, imp |-> MaxCount, eng |-> 1]>>,
               5, <<[date |-> 1, new |-> 1]>>,
               <<[category |-> "seniority", value |-> "Senior", pct |-> Number(31)]>>))

AggPostFiles ==
    {Xlsx(AggWb(<<AggRow("A1", d, v, v)>>, <<>>, 0, <<>>, <<>>)) :
        d \in Dates, v \in {1, MaxCount}}
    \cup {Xlsx(AggWb(<<AggRow("A2", d, MaxCount, MaxCount)>>, <<>>, 0, <<>>, <<>>)) :
        d \in Dates}
    \cup {TwoPostExport}

\* Per-post exports of the post with share URN B1, and one whose URL carries
\* a ugcPost URN and whose Post Date does not parse.
PerPostFiles ==
    {Xlsx(PerPostWb(Url("share", "B1"), d, MaxCount, <<>>)) : d \in Dates}
    \cup {Xlsx(PerPostWb(Url("share", "B1"), 1, 0, <<>>))}
    \cup {Xlsx(PerPostWb(Url("ugcPost", "B1"), NoDate, 1, <<>>))}

\* Files as they reach ingest_file: well-formed exports, exports with a
\* repeated key, and files the checks or the workbook loader refuse.
OnePostExport == Xlsx(AggWb(<<AggRow("A1", 1, 1, 1)>>, <<>>, 0, <<>>, <<>>))

\* The FOLLOWERS sheet lists the first day twice.
RepeatedFollowerDay ==
    Xlsx(AggWb(<<AggRow("A2", 1, 1, 1)>>, <<>>, 5,
               <<[date |-> 1, new |-> 1], [date |-> 1, new |-> 2],
                 [date |-> NumDates, new |-> 1]>>, <<>>))

Audience == [category |-> "job_title", value |-> "Engineer", pct |-> Number(31)]

OnePostDetail == Xlsx(PerPostWb(Url("share", "B1"), 1, MaxCount, <<Audience>>))

\* TOP DEMOGRAPHICS lists the same category and value twice.
RepeatedAudience ==
    Xlsx(PerPostWb(Url("share", "B1"), NumDates, 1, <<Audience, Audience>>))

\* Exports _detect_xlsx_format does not recognise: one without the
\* DISCOVERY sheet, one whose only sheet is of another name, and a complete
\* one that writes Discovery with the long s.
NoDiscoveryExport ==
    [OnePostExport EXCEPT !.content.wb.sheetnames =
        AggSheets \ {Literal(SHEET_DISCOVERY)}]

OtherSheetOnly ==
    Xlsx([BlankWb EXCEPT !.sheetnames = {SheetName("SHEET1", "title", FALSE)}])

LongSExport ==
    [TwoPostExport EXCEPT !.content.wb.sheetnames =
        (AggSheets \ {Literal(SHEET_DISCOVERY)})
        \cup {SheetName(SHEET_DISCOVERY, "longs", FALSE)}]

UnknownFiles == {NoDiscoveryExport, OtherSheetOnly, LongSExport}

\* Exports that come back to keys already imported with lower values: the
\* follower count and the demographic share of the first day, and the
\* audience share of the post B1.
LowerSnapshots ==
    Xlsx(AggWb(<<>>, <<>>, 3, <<[date |-> 1, new |-> 0]>>,
               <<[category |-> "seniority", value |-> "Senior", pct |-> Number(5)]>>))

LowerAudience ==
    Xlsx(PerPostWb(Url("share", "B1"), 1, MaxCount,
                   <<[Audience EXCEPT !.pct = Number(5)]>>))

SnapshotFiles ==
    {TwoPostExport, LowerSnapshots, RepeatedFollowerDay, OnePostDetail,
     LowerAudience, RepeatedAudience}

\* Exports with one TOP POSTS row of the post A1, with counters above those
\* of OnePostExport.
ConcurrentFiles ==
    {Xlsx(AggWb(<<AggRow("A1", 1, v, w)>>, <<>>, 0, <<>>, <<>>)) :
        v \in {MaxCount, MaxCount + 1}, w \in {1, MaxCount}}
    \cup {Xlsx(AggWb(<<AggRow("A2", NumDates, 1, 1)>>, <<>>, 0, <<>>, <<>>))}

Oversized(file) ==
    [file EXCEPT !.content.size = MAX_FILE_SIZE_BYTES + 1]

Garbage == Content(1000, FALSE, BlankWb)

RefusedFiles ==
    {File(FALSE, ".xlsx", Content(0, FALSE, BlankWb)),
     File(TRUE, ".xlsx", Content(0, FALSE, BlankWb)),
     File(TRUE, ".pdf", Garbage),
     File(TRUE, ".xlsx", Garbage),
     File(TRUE, ".xlsx", Content(1000, TRUE, BlankWb)),
     Oversized(OnePostExport),
     Oversized(OnePostDetail)}

FileCatalog ==
    {OnePostExport, TwoPostExport, RepeatedFollowerDay, OnePostDetail,
     RepeatedAudience, File(TRUE, ".csv", Garbage),
     [OnePostExport EXCEPT !.suffix = ".xls"]}
    \cup RefusedFiles

FileNames == {"export.xlsx", "copy.xlsx"}

TxFiles ==
    {OnePostExport, TwoPostExport, RepeatedFollowerDay, OnePostDetail,
     RepeatedAudience, File(TRUE, ".xlsx", Garbage),
     File(TRUE, ".xlsx", Content(1000, TRUE, BlankWb))}

\* ParsedExport values as a caller of load_to_db builds them: a titled post
\* record with its counters and an engagement_rate of the caller's choice.
HandPost(d, v, w, e) ==
    [date |-> d, title |-> "T1", lid |-> NULL, url |-> NoUrl, imp |-> v,
     react |-> w, comm |-> w, shares |-> 0, clicks |-> 0, reach |-> v,
     er |-> e, ptype |-> NULL]

HandPosts ==
    {HandPost(d, MaxCount, w, e) :
        d \in Dates, w \in {0, 1}, e \in {Rate(0, 0), Rate(1, MaxCount)}}

HandExports == {[EmptyParsed EXCEPT !.posts = <<r>>] : r \in HandPosts}

\* Sheet names in the spellings a workbook may carry: capitals, lower case,
\* and capitalised words with blanks around.
Spellings(text) ==
    {SheetName(text, "upper", FALSE), SheetName(text, "lower", FALSE),
     SheetName(text, "title", TRUE)}

FormatSheets == {"PERFORMANCE", "TOP DEMOGRAPHICS", "DISCOVERY", "ENGAGEMENT"}

LongS(text) == SheetName(text, "longs", FALSE)

SheetNameSets ==
    SUBSET ((UNION {Spellings(t) : t \in FormatSheets})
            \cup {LongS("DISCOVERY"), LongS("TOP DEMOGRAPHICS")}
            \cup {Literal(SHEET_TOP_POSTS)})

\* Workbooks for parse_linkedin_export.  A complete export with rows in
\* every sheet, the second ENGAGEMENT row and the second FOLLOWERS row with
\* a date that does not parse, the second DEMOGRAPHICS row without a value.
FullWb ==
    AggWb(<<AggRow("A1", 1, MaxCount, 1), AggRow("A2", NumDates, 1, 1)>>,
          <<[date |-> 1, imp |-> 1, eng |-> 1],
            [date |-> NoDate, imp |-> 1, eng |-> 0],
            [date |-> NumDates, imp |-> MaxCount, eng |-> 1]>>,
          5,
          <<[date |-> 1, new |-> 1], [date |-> NoDate, new |-> 1]>>,
          <<[category |-> "seniority", value |-> "Senior", pct |-> Number(31)],
            [category |-> "seniority", value |-> "", pct |-> Number(5)]>>)

OtherSheet == SheetName("SHEET1", "title", FALSE)

\* The export with any of the five sheets removed, with and without a sheet
\* of another name.
SubsetExports ==
    {Xlsx([FullWb EXCEPT !.sheetnames = names \cup extra]) :
        names \in SUBSET AggSheets, extra \in {{}, {OtherSheet}}}

\* The export with every sheet name capitalised and surrounded by blanks.
RespelledExport ==
    Xlsx([FullWb EXCEPT !.sheetnames =
            {SheetName(n.text, "title", TRUE) : n \in AggSheets}])

\* An ENGAGEMENT sheet in the columnar post layout: header Post Date, Post
\* Title, Impressions, Reactions, Comments, Shares, Clicks, and one post per
\* row.  A title is given by its text and its number of characters.
PostRow(d, text, len) ==
    [date |-> d, title |-> [text |-> text, len |-> len], imp |-> MaxCount,
     react |-> 1, comm |-> 1, shares |-> 0, clicks |-> 1]

ColumnarWb(names, rows) ==
    [BlankWb EXCEPT !.sheetnames = names,
                    !.enghdr = SheetName("POST DATE", "title", FALSE),
                    !.eng = rows]

ColumnarExports ==
    {Xlsx(ColumnarWb(names, rows)) :
        names \in {{Literal(SHEET_ENGAGEMENT)}, AggSheets},
        rows \in {<<PostRow(1, "Test post", 9)>>,
                  <<PostRow(NoDate, "Bad row", 7), PostRow(NumDates, "Good row", 8)>>,
                  <<PostRow(1, "A", 200)>>}}

ParseFiles == SubsetExports \cup ColumnarExports \cup {RespelledExport, LongSExport}

\* TOP POSTS sheets of one or two rows below the header.  A column group is
\* empty or names a post: A1 with a date that parses or not and either
\* value, A2, A1 as a bare URN, or a post by its share or ugcPost URN.
TopSides ==
    {NoSide, Side(Url("activity", "A2"), 1, 1),
     Side(BareUrn("activity", "A1"), 1, MaxCount),
     Side(Url("share", "B1"), 1, 1), Side(Url("ugcPost", "B1"), 1, 1)}
    \cup {Side(Url("activity", "A1"), d, v) : d \in {NoDate, 1}, v \in {1, MaxCount}}

TopRows == {TopRow(l, r) : l \in TopSides, r \in TopSides}

TopPostsFiles ==
    {Xlsx(AggWb(<<a>>, <<>>, 0, <<>>, <<>>)) : a \in TopRows}
    \cup {Xlsx(AggWb(<<a, b>>, <<>>, 0, <<>>, <<>>)) : a \in TopRows, b \in TopRows}

\* Percentage cells: numbers, "< 1%", "15%" and "100%", "0.31" and "1.0" as
\* text, another text, and the empty cell.
PercentageCells ==
    {Number(0), Number(3100), Number(10000), LessThan, Percent(15),
     Percent(100), NumStr(3100), NumStr(10000), Text, Empty}

\* Workbooks whose DEMOGRAPHICS and TOP DEMOGRAPHICS sheets hold the same
\* one or two rows.
DemoSheets ==
    {<<[category |-> "location", value |-> "Canada", pct |-> a]>> :
        a \in PercentageCells}
    \cup {<<[category |-> "location", value |-> "Canada", pct |-> a],
            [category |-> "seniority", value |-> "Senior", pct |-> b]>> :
          a \in PercentageCells, b \in PercentageCells}

DemoFiles ==
    {Xlsx([BlankWb EXCEPT !.sheetnames = AggSheets \cup PerPostSheets,
                          !.dem = rows, !.pdem = rows]) : rows \in DemoSheets}

\* Files with the suffix .csv: text that is no workbook, and the bytes of an
\* export workbook under that suffix.
CsvFiles ==
    {File(TRUE, ".csv", Garbage), [TwoPostExport EXCEPT !.suffix = ".csv"]}

\* Requests of update_post: every tag set, the draft id alone, the topic
\* cleared.
TagRequests ==
    {<<"7", "ai", "essay", "question", "long">>,
     <<"7", NotGiven, NotGiven, NotGiven, NotGiven>>,
     <<NotGiven, "", NotGiven, NotGiven, NotGiven>>}

\* Exports that come back to the posts A1 and B1.
TaggedFiles ==
    {OnePostExport,
     Xlsx(AggWb(<<AggRow("A1", 1, MaxCount, MaxCount)>>, <<>>, 0, <<>>, <<>>)),
     OnePostDetail,
     Xlsx(PerPostWb(Url("share", "B1"), NumDates, 1, <<>>))}

\* ---------------------------------------------------------- specification
\* Reconciliation of posts across aggregate imports, per-post imports and
\* the compose API.
Next ==
    \/ \E f \in AggPostFiles \cup PerPostFiles : IngestFile(f, "export.xlsx")
    \/ \E i \in 0..MaxOps, t \in Titles : SaveDraft(i, t)
    \/ \E i \in 0..MaxOps, t \in Titles, a \in ShareIds : Publish(i, t, a)
    \/ Tick

Spec == Init /\ [][Next]_vars

\* Uploads of any file under any name.
NextF == \E f \in FileCatalog, n \in FileNames : IngestFile(f, n)

SpecF == Init /\ [][NextF]_vars

\* _detect_xlsx_format on a workbook with any set of sheet names.
InitD ==
    /\ db = EmptyDb
    /\ today = 1
    /\ last \in {[NoCall EXCEPT !.file =
                    Xlsx([BlankWb EXCEPT !.sheetnames = names])] :
                 names \in SheetNameSets}
    /\ prev = EmptyDb
    /\ nops = 0
    /\ tx = EmptyDb
    /\ pc = <<>>
    /\ sess = NoSessions
    /\ writer = 0
    /\ oauth = NoOauth
    /\ dedup = NoDedup

NextD == DetectXlsxFormat

SpecD == InitD /\ [][NextD]_vars

\* parse_linkedin_export on a workbook of the catalog, on any day.
InitP ==
    /\ db = EmptyDb
    /\ today \in Dates
    /\ last \in {[NoCall EXCEPT !.file = f] : f \in ParseFiles}
    /\ prev = EmptyDb
    /\ nops = 0
    /\ tx = EmptyDb
    /\ pc = <<>>
    /\ sess = NoSessions
    /\ writer = 0
    /\ oauth = NoOauth
    /\ dedup = NoDedup

NextP == ParseLinkedinExport

SpecP == InitP /\ [][NextP]_vars

\* The two demographics parsers on the same rows.
InitG ==
    /\ db = EmptyDb
    /\ today = 1
    /\ last \in {[NoCall EXCEPT !.file = f] : f \in DemoFiles}
    /\ prev = EmptyDb
    /\ nops = 0
    /\ tx = EmptyDb
    /\ pc = <<>>
    /\ sess = NoSessions
    /\ writer = 0
    /\ oauth = NoOauth
    /\ dedup = NoDedup

NextG == ParseDemographics

SpecG == InitG /\ [][NextG]_vars

\* parse_linkedin_export on an export with any TOP POSTS sheet of the
\* catalog.
InitT ==
    /\ db = EmptyDb
    /\ today = 1
    /\ last \in {[NoCall EXCEPT !.file = f] : f \in TopPostsFiles}
    /\ prev = EmptyDb
    /\ nops = 0
    /\ tx = EmptyDb
    /\ pc = <<>>
    /\ sess = NoSessions
    /\ writer = 0
    /\ oauth = NoOauth
    /\ dedup = NoDedup

NextT == ParseLinkedinExport

SpecT == InitT /\ [][NextT]_vars

\* load_to_db on exports built by its caller.
NextL == \E parsed \in HandExports : LoadToDb(parsed)

SpecL == Init /\ [][NextL]_vars

\* Uploads of exports of unknown format, next to one of each known format.
NextU ==
    \E f \in UnknownFiles \cup {OnePostExport, OnePostDetail},
       n \in FileNames : IngestFile(f, n)

SpecU == Init /\ [][NextU]_vars

\* Imports that carry follower, demographic and per-post demographic rows.
NextS == \E f \in SnapshotFiles : IngestFile(f, "export.xlsx")

SpecS == Init /\ [][NextS]_vars

\* Two imports of different files side by side, after OnePostExport was
\* imported.
InitC ==
    /\ db = ingest_file(EmptyDb, OnePostExport, "export.xlsx", 1).db
    /\ today = 1
    /\ last = NoCall
    /\ prev = db
    /\ nops = 0
    /\ tx = db
    /\ pc = <<>>
    /\ sess = NoSessions
    /\ writer = 0
    /\ oauth = NoOauth
    /\ dedup = NoDedup

NextC ==
    \/ \E i \in Sessions, f \in ConcurrentFiles : CBegin(i, f)
    \/ \E i \in Sessions : CFlush(i)
    \/ \E i \in Sessions : CBusy(i)
    \/ \E i \in Sessions : CCommit(i)
    \/ \E i \in Sessions : CUpload(i)

SpecC == InitC /\ [][NextC]_vars

\* Uploads of .csv files, next to one export of each format.
NextV ==
    \E f \in CsvFiles \cup {OnePostExport, OnePostDetail}, n \in FileNames :
        IngestFile(f, n)

SpecV == Init /\ [][NextV]_vars

\* Imports between the requests that write a post's authored fields.
NextK ==
    \/ \E f \in TaggedFiles : IngestFile(f, "export.xlsx")
    \/ \E i \in 0..MaxOps, t \in Titles : SaveDraft(i, t)
    \/ \E i \in 0..MaxOps, t \in Titles, a \in ShareIds : Publish(i, t, a)
    \/ \E i \in 1..MaxOps, tags \in TagRequests : UpdatePost(i, tags)

SpecK == Init /\ [][NextK]_vars

\* ingest_file taken step by step, with the process free to die between
\* two steps.
NextTx ==
    \/ \E f \in TxFiles : TxBegin(f, "export.xlsx")
    \/ TxUpsert
    \/ TxCommit
    \/ TxUpload
    \/ Crash

SpecTx == Init /\ [][NextTx]_vars

\* ------------------------------------------------------------- properties
Imported == last.op = "ingest_file" /\ last.exc = "none"

LastFormat == DetectedFormat(last.file)

LastPerf == last.file.content.wb.perf

\* The post records the last import carried: the TOP POSTS records of an
\* aggregate export, or the one record of a per-post export.
LastRecords ==
    IF LastFormat = "per_post"
    THEN {[lid |-> _extract_urn_from_url(LastPerf.url),
           date |-> IF LastPerf.date # NoDate THEN LastPerf.date ELSE last.today]}
    ELSE LET ps == parse_linkedin_export(last.file, last.today).parsed.posts
         IN  {[lid |-> ps[i].lid, date |-> ps[i].date] : i \in 1..Len(ps)}

Counters(p) == <<p.imp, p.reach, p.react, p.comm, p.shares, p.clicks>>

\* The post carries the metrics of the per-post export.
HasPerf(p, perf) ==
    /\ p.imp = perf.imp /\ p.reach = perf.reach /\ p.react = perf.react
    /\ p.comm = perf.comm /\ p.reposts = perf.reposts /\ p.saves = perf.saves
    /\ p.sends = perf.sends /\ p.pviews = perf.pviews
    /\ p.fgained = perf.fgained

\* C1: across an import of either pipeline no cumulative counter
\* (impressions, members_reached, reactions, comments, shares, clicks) of a
\* stored post decreases.
C1_CountersNeverDecrease ==
    Imported =>
        \A i \in 1..Len(prev.posts) :
            \A c \in 1..6 : Counters(db.posts[i])[c] >= Counters(prev.posts[i])[c]

\* A post created by an aggregate import from a TOP POSTS row.
FromTopPosts(p) == p.lid \in ActIds /\ p.title = NULL /\ p.content = NULL

\* C3: a per-post import with URN id B and post date d is merged into the
\* post an aggregate import created from a TOP POSTS row of date d, and the
\* number of Post rows does not grow.
C3_BridgedToSameRow ==
    (Imported /\ LastFormat = "per_post") =>
        \A r \in LastRecords : \A i \in 1..Len(prev.posts) :
            (/\ FromTopPosts(prev.posts[i])
             /\ prev.posts[i].date = r.date
             /\ \A j \in 1..Len(prev.posts) : prev.posts[j].lid # r.lid)
            => /\ Len(db.posts) = Len(prev.posts)
               /\ HasPerf(db.posts[i], LastPerf)

AllIdsKnown ==
    \A r \in LastRecords :
        Truthy(r.lid) /\ \E k \in 1..Len(prev.posts) : prev.posts[k].lid = r.lid

\* C10: a record whose external id equals that of a stored post P is merged
\* into P even when its date matches another post Q; Q is left unchanged and
\* no row is created.
C10_IdMatchWins ==
    (Imported /\ LastRecords # {} /\ AllIdsKnown) =>
        /\ Len(db.posts) = Len(prev.posts)
        /\ \A q \in 1..Len(prev.posts) :
            (\A r \in LastRecords : prev.posts[q].lid # r.lid)
                => db.posts[q] = prev.posts[q]

\* An aggregate record was merged by id into P although an untitled post Q
\* of another id has the record's date.
C10_Witness ==
    /\ Imported /\ LastFormat = "aggregate" /\ AllIdsKnown
    /\ \E r \in LastRecords : \E k, q \in 1..Len(prev.posts) :
        /\ prev.posts[k].lid = r.lid
        /\ prev.posts[k].date # r.date
        /\ q # k
        /\ prev.posts[q].date = r.date
        /\ prev.posts[q].title = NULL
        /\ db.posts[k] # prev.posts[k]

SecondApplication ==
    IF LastFormat = "per_post"
    THEN ingest_per_post_xlsx(db, last.file.content.wb, last.today).db
    ELSE load_to_db(db, parse_linkedin_export(last.file, last.today).parsed).db

\* C4: applying the import a second time with the same dataset leaves every
\* cumulative counter of every post as the first application left it and
\* creates no Post, DailyMetric, FollowerSnapshot or DemographicSnapshot row.
C4_ReimportIdempotent ==
    Imported =>
        LET again == SecondApplication
        IN  /\ Len(again.posts) = Len(db.posts)
            /\ \A i \in 1..Len(db.posts) :
                Counters(again.posts[i]) = Counters(db.posts[i])
            /\ Len(again.daily) = Len(db.daily)
            /\ Len(again.followers) = Len(db.followers)
            /\ Len(again.demos) = Len(db.demos)

\* The first application merged non-zero counters into a stored post.
C4_Witness ==
    /\ Imported
    /\ \E i \in 1..Len(prev.posts) :
        /\ Counters(db.posts[i]) # Counters(prev.posts[i])
        /\ db.posts[i].imp > 0

\* ------------------------------------------------ properties of ingest_file
Ingested == last.op = "ingest_file"

\* An upload with the content of the last file was recorded before the call.
ContentRecorded ==
    \E i \in 1..Len(prev.uploads) :
        prev.uploads[i].file_hash = compute_file_hash(last.file)

\* C2: when an Upload row with the content hash of the file exists,
\* ingest_file raises DuplicateFileError whatever the filename and leaves
\* every table as it was; a file whose content hash is not recorded is not
\* rejected as a duplicate.
C2_DuplicateRejected ==
    (Ingested /\ last.file.exists) =>
        /\ ContentRecorded => (last.exc = "DuplicateFileError" /\ db = prev)
        /\ ~ContentRecorded => last.exc # "DuplicateFileError"

\* A file was rejected as the duplicate of an upload recorded under another
\* name, after a further upload was recorded and with rows stored.
C2_Witness ==
    /\ Ingested /\ last.exc = "DuplicateFileError"
    /\ db.posts # <<>>
    /\ \E i \in 1..Len(prev.uploads) :
        /\ prev.uploads[i].file_hash = compute_file_hash(last.file)
        /\ prev.uploads[i].filename # last.filename
        /\ i < Len(prev.uploads)

\* C5: a missing, zero-byte, oversized or disallowed-extension file is
\* rejected with IngestError before the hash is computed, before the
\* duplicate lookup and before a workbook is opened, on both pipelines.
C5_ValidationFirst ==
    (Ingested /\ validate_upload(last.file) # "ok") =>
        /\ last.exc = "IngestError"
        /\ \A i \in 1..Len(last.stages) :
              last.stages[i] \notin {"hash", "duplicate-check", "open"}

\* The last call reached load_to_db.
ReachedLoad ==
    LET p == Prepare(prev, last.file, last.today)
    IN  Ingested /\ p.exc = "none" /\ p.fmt = "aggregate"

\* C7: load_to_db does not raise on a record that violates a uniqueness
\* constraint, and the other records of the import are committed: the posts
\* are as the loop over the posts leaves them whatever a follower or
\* demographic record runs into.
C7_RecordFailureContained ==
    ReachedLoad =>
        /\ last.exc = "none"
        /\ db.posts =
             LoadStep(prev, parse_linkedin_export(last.file, last.today).parsed,
                      "posts").posts

\* ------------------------------------- properties of the step-level import
\* The call has ended otherwise than by a crash.
Ended == Ingested /\ pc = <<>> /\ last.exc # "crashed"

\* The stepwise call ends as ingest_file taken as a whole does.
StepwiseAgrees ==
    Ended =>
        LET res == ingest_file(prev, last.file, last.filename, last.today)
        IN  /\ db = res.db
            /\ last.exc = res.exc
            /\ last.stages = res.stages
            /\ last.stats = res.stats

\* The file is an accepted, new upload that cannot be read as an export:
\* the workbook does not load, has no sheet, or is a per-post workbook whose
\* rows the commit refuses.
StructuralFailure ==
    /\ validate_upload(last.file) = "ok"
    /\ ~ContentRecorded
    /\ last.file.suffix # ".csv"
    /\ \/ ~LoadOk(last.file)
       \/ last.file.content.wb.sheetnames = {}
       \/ /\ LastFormat = "per_post"
          /\ ~CommitOk(PerPostRows(prev, last.file.content.wb, last.today))

\* C6: an import that fails on an unreadable workbook, a workbook without
\* sheets or a per-post workbook failing part-way raises IngestError; after
\* an IngestError no table differs from what it was before the call and the
\* session holds no pending change.
C6_FailedImportLeavesNothing ==
    /\ (Ended /\ StructuralFailure) => last.exc = "IngestError"
    /\ (Ingested /\ last.exc = "IngestError") => (db = prev /\ tx = db)

\* A per-post import failed at its commit, after the post was written and
\* flushed, with rows stored by an earlier import.
C6_Witness ==
    /\ Ended /\ StructuralFailure
    /\ last.exc = "IngestError"
    /\ LastFormat = "per_post"
    /\ last.stages[Len(last.stages)] = "persist"
    /\ db.posts # <<>>

Records(rows) == [rows EXCEPT !.uploads = <<>>]

\* C8: at every step of ingest_file, and after a crash at any step, the
\* durable Post, metric, snapshot and demographic rows are those before the
\* call or those the whole import yields.
C8_NoneOrAll ==
    Ingested =>
        \/ Records(db) = Records(prev)
        \/ Records(db) =
              Records(ingest_file(prev, last.file, last.filename, last.today).db)

\* The process died after the posts of an export were flushed and before
\* its daily metrics were upserted; the export carries rows of four tables.
C8_Witness ==
    /\ Ingested /\ last.exc = "crashed"
    /\ last.stages[Len(last.stages)] = "daily"
    /\ last.file = TwoPostExport
    /\ Records(db) = Records(prev)
    /\ tx = db

\* ------------------------------------------- properties of the post merge
\* The post records of the last aggregate import, as parsed.
LastParsedPosts == parse_linkedin_export(last.file, last.today).parsed.posts

\* The stored untitled post of lowest id with the date d; 0 when none.
UntitledOn(posts, d) == FirstIdx(posts, LAMBDA p : p.date = d /\ p.title = NULL)

\* Neither the external id nor (post date, title) of r finds a stored post.
Unmatched(posts, r) ==
    /\ \A k \in 1..Len(posts) : posts[k].lid # r.lid
    /\ \A k \in 1..Len(posts) :
          ~(Truthy(r.title) /\ posts[k].date = r.date /\ posts[k].title = r.title)

\* C11: a record that neither its external id nor its (post date, title)
\* matches to a stored post is merged into the stored post of the same date
\* that has no title: that post takes the record's counters by maximum and
\* no row is created for the record.
C11_DateOnlyFallback ==
    (Imported /\ LastFormat = "aggregate") =>
        \A n \in 1..Len(LastParsedPosts) :
            LET r == LastParsedPosts[n]
                i == UntitledOn(prev.posts, r.date)
            IN  (Unmatched(prev.posts, r) /\ i # 0) =>
                    /\ db.posts[i].imp >= prev.posts[i].imp
                    /\ db.posts[i].imp >= r.imp
                    /\ db.posts[i].react >= r.react
                    /\ \A j \in (Len(prev.posts) + 1)..Len(db.posts) :
                          db.posts[j].lid # r.lid

\* A record with an id no stored post carries was merged into the untitled
\* post of its date, which carries another id; the post changed and no row
\* was created.
C11_Witness ==
    /\ Imported /\ LastFormat = "aggregate"
    /\ \E n \in 1..Len(LastParsedPosts) :
        LET r == LastParsedPosts[n]
            i == UntitledOn(prev.posts, r.date)
        IN  /\ Unmatched(prev.posts, r) /\ i # 0
            /\ Truthy(prev.posts[i].lid)
            /\ db.posts[i] # prev.posts[i]
            /\ db.posts[i].imp = r.imp
            /\ Len(db.posts) = Len(prev.posts)

\* A mergeable field after a fill-if-empty merge: the stored value when it
\* was populated, the incoming one when it was not and one is carried.
Filled(old, new, incoming, empty) ==
    IF old # empty THEN new = old
    ELSE incoming # empty => new = incoming

\* C12: on every matched import, of either pipeline, external post id, post
\* URL and post type keep the stored value when it is populated and take
\* the incoming value when the stored one is null and the record carries
\* one.
C12_IdentityFillIfEmpty ==
    Imported =>
        IF LastFormat = "per_post"
        THEN LET lid == _extract_urn_from_url(LastPerf.url)
                 k == MatchPerPost(prev.posts, lid, PerPostDate(LastPerf, last.today))
             IN  k # 0 =>
                    /\ Filled(prev.posts[k].lid, db.posts[k].lid, lid, NULL)
                    /\ Filled(prev.posts[k].url, db.posts[k].url, LastPerf.url, NoUrl)
                    /\ db.posts[k].ptype = prev.posts[k].ptype
        ELSE \A k \in 1..Len(prev.posts) :
                LET hits == {n \in 1..Len(LastParsedPosts) :
                                MatchPost(prev.posts, LastParsedPosts[n]) = k}
                IN  hits # {} =>
                      \E n \in hits :
                        /\ Filled(prev.posts[k].lid, db.posts[k].lid,
                                  LastParsedPosts[n].lid, NULL)
                        /\ Filled(prev.posts[k].url, db.posts[k].url,
                                  LastParsedPosts[n].url, NoUrl)
                        /\ Filled(prev.posts[k].ptype, db.posts[k].ptype,
                                  LastParsedPosts[n].ptype, NULL)

\* Two engagement rates are the same quotient.
RateEq(a, b) == a.n * b.d = b.n * a.d

\* The post rows the last call created or changed.
Touched ==
    {i \in 1..Len(db.posts) : i > Len(prev.posts) \/ db.posts[i] # prev.posts[i]}

Present(text) ==
    \E s \in last.file.content.wb.sheetnames :
        s.text = text /\ s.case \in {"upper", "lower", "title"}

Detected == last.op = "_detect_xlsx_format"

PerPostPair == Present("PERFORMANCE") /\ Present("TOP DEMOGRAPHICS")

AggregatePair == Present("DISCOVERY") /\ Present("ENGAGEMENT")

C15_UnknownFormatWarns ==
    (Ingested /\ ~ContentRecorded /\ LastFormat = "unknown") =>
        /\ \E i \in 1..Len(last.stages) : last.stages[i] = "validate"
        /\ last.exc = "none" => last.stats.warnings # <<>>

\* ------------------------------------- properties of parse_linkedin_export
Parsed == last.op = "parse_linkedin_export"

LastWb == last.file.content.wb

\* The workbook has no sheet of that name, however it is spelled.
Lacking(text) == \A s \in LastWb.sheetnames : s.text # text

\* Number of warnings that report the sheet as not found.
NotFoundCount(text) ==
    Cardinality({i \in 1..Len(last.parsed.warnings) :
                    last.parsed.warnings[i] = Warn("Sheet not found.", text)})

\* The rows of a sheet whose date parses.
Dated(rows) == SelectSeq(rows, LAMBDA r : r.date # NoDate)

\* Every present sheet has yielded its records and every lacking one none.
PresentSheetsParsed ==
    /\ Len(last.parsed.posts) =
          IF Lacking(SHEET_TOP_POSTS) THEN 0
          ELSE Cardinality({LastWb.top[i].r.url : i \in 1..Len(LastWb.top)})
    /\ upper(strip(LastWb.enghdr)) = Literal("DATE") =>
          Len(last.parsed.daily_metrics) =
             IF Lacking(SHEET_ENGAGEMENT) THEN 0 ELSE Len(Dated(LastWb.eng))
    /\ Len(last.parsed.follower_snapshots) =
          IF Lacking(SHEET_FOLLOWERS) THEN 0 ELSE Len(Dated(LastWb.fol))
    /\ Len(last.parsed.demographic_snapshots) =
          IF Lacking(SHEET_DEMOGRAPHICS) THEN 0
          ELSE Len(SelectSeq(LastWb.dem, LAMBDA r : r.value # ""))

WarnedPerMissingSheet ==
    \A n \in AggSheets :
        NotFoundCount(n.text) = IF Lacking(n.text) THEN 1 ELSE 0

ColumnarLayout ==
    /\ ~Lacking(SHEET_ENGAGEMENT)
    /\ upper(strip(LastWb.enghdr)) = Literal("POST DATE")

\* C17: from an ENGAGEMENT sheet in the columnar post layout
\* parse_linkedin_export returns one post record per data row whose date
\* parses, in sheet order, and every returned title has at most 100
\* characters.
C17_ColumnarPostsParsed ==
    (Parsed /\ last.exc = "none" /\ ColumnarLayout) =>
        /\ Len(last.parsed.posts) = Len(Dated(LastWb.eng))
        /\ \A i \in 1..Len(last.parsed.posts) :
              /\ last.parsed.posts[i].date = Dated(LastWb.eng)[i].date
              /\ last.parsed.posts[i].title.text = Dated(LastWb.eng)[i].title.text
              /\ last.parsed.posts[i].title.len <= 100

\* --------------------------------- properties of daily metrics and snapshots
\* The daily-metric records of the last aggregate import, as parsed.
LastDaily == parse_linkedin_export(last.file, last.today).parsed.daily_metrics

SetMax(S) == CHOOSE x \in S : \A y \in S : x >= y

\* The impressions imported for the account-level key d by the last import,
\* and those stored for it before.
IncomingFor(d) ==
    {LastDaily[n].imp : n \in {m \in 1..Len(LastDaily) : LastDaily[m].date = d}}

StoredFor(d) ==
    {prev.daily[i].imp :
        i \in {k \in 1..Len(prev.daily) :
                  prev.daily[k].post_id = NoPost /\ prev.daily[k].date = d}}

\* C18: there is at most one DailyMetric row per (owning post, date),
\* account-level rows (no owning post) included, and after an import the
\* row of every imported key holds the maximum of the values imported for
\* that key and the value stored before.
C18_DailyMetricsByKey ==
    /\ \A i, j \in 1..Len(db.daily) :
          (/\ db.daily[i].post_id = db.daily[j].post_id
           /\ db.daily[i].date = db.daily[j].date) => i = j
    /\ (Imported /\ LastFormat # "per_post") =>
          \A d \in Dates :
              IncomingFor(d) # {} =>
                  \E i \in 1..Len(db.daily) :
                      /\ db.daily[i].post_id = NoPost
                      /\ db.daily[i].date = d
                      /\ db.daily[i].imp = SetMax(IncomingFor(d) \cup StoredFor(d))

\* The snapshot records of the last import, as parsed.
LastFollowers == parse_linkedin_export(last.file, last.today).parsed.follower_snapshots

LastDemos == parse_linkedin_export(last.file, last.today).parsed.demographic_snapshots

LastPostDemos ==
    ForPost(_parse_per_post_demographics(LastWb.pdem),
            PerPostPosts(prev.posts, LastPerf, last.today).post_id)

\* Every key of the records has exactly one row, and the row holds the
\* values of the last record with that key.
Overwritten(rows, recs, Key(_), Val(_)) ==
    \A n \in 1..Len(recs) :
        LET hits == {i \in 1..Len(rows) : Key(rows[i]) = Key(recs[n])}
            final == SetMax({m \in 1..Len(recs) : Key(recs[m]) = Key(recs[n])})
        IN  /\ Cardinality(hits) = 1
            /\ \A i \in hits : Val(rows[i]) = Val(recs[final])

\* C19: after an import there is exactly one FollowerSnapshot row per
\* imported date, one DemographicSnapshot row per imported (date, category,
\* value) and one PostDemographic row per imported (post, category, value),
\* and the row holds the values of that import, lower than the stored ones
\* or not.
C19_SnapshotsOverwrite ==
    Imported =>
        IF LastFormat = "per_post"
        THEN Overwritten(db.pdemos, LastPostDemos,
                         LAMBDA d : <<d.post_id, d.category, d.value>>,
                         LAMBDA d : d.pct)
        ELSE /\ Overwritten(db.followers, LastFollowers,
                            LAMBDA f : f.date, LAMBDA f : <<f.total, f.new>>)
             /\ Overwritten(db.demos, LastDemos,
                            LAMBDA d : <<d.date, d.category, d.value>>,
                            LAMBDA d : d.pct)

\* An import has lowered a stored follower count and a stored demographic
\* share, and per-post demographics are stored as well.
C19_Witness ==
    /\ Imported /\ LastFormat # "per_post"
    /\ \E i \in 1..Len(prev.followers) :
          /\ db.followers[i].total < prev.followers[i].total
          /\ db.followers[i].new < prev.followers[i].new
    /\ \E j \in 1..Len(prev.demos) : db.demos[j].pct < prev.demos[j].pct
    /\ db.pdemos # <<>>

\* ------------------------------------------- properties of parallel imports
\* Both imports have committed and both matched the post k.
BothMatched(k) ==
    \A i \in Sessions : sess[i].pc = "done" /\ sess[i].k = k

\* C20: when two imports of different files run side by side and match the
\* same post, then after both have committed every cumulative counter of
\* the post is the maximum of its value before and the two incoming values.
C20_ConcurrentMaxWins ==
    \A k \in 1..Len(prev.posts) :
        BothMatched(k) =>
            \A c \in 1..6 :
                Counters(db.posts[k])[c] =
                    Max(Max(Counters(prev.posts[k])[c], Counters(sess[1].r)[c]),
                        Counters(sess[2].r)[c])

\* ------------------------------------------- properties of the post's frame
\* The fields an author or a request writes.
Authored(p) ==
    <<p.content, p.title, p.date, p.draft_id, p.topic, p.content_format,
      p.hook_style, p.length_bucket>>

\* C21: a call of ingest_file, of either pipeline, leaves content, title,
\* post_date, draft_id and the cohort fields (topic, content_format,
\* hook_style, length_bucket) of every stored post as they were, and removes
\* no Post row: every id stored before is stored after.
C21_AuthoredFieldsKept ==
    Ingested =>
        /\ Len(db.posts) >= Len(prev.posts)
        /\ \A i \in 1..Len(prev.posts) :
              Authored(db.posts[i]) = Authored(prev.posts[i])

\* An import has updated a post that carries content, a title, a draft id
\* and every cohort field.
C21_Witness ==
    /\ Imported
    /\ \E i \in 1..Len(prev.posts) :
          /\ db.posts[i] # prev.posts[i]
          /\ \A f \in 1..8 : f # 3 => Authored(prev.posts[i])[f] # NULL

\* ------------------------------------------------------- properties of .csv
\* The last call was ingest_file on a .csv file that passes validate_upload.
CsvIngested ==
    Ingested /\ last.file.suffix = ".csv" /\ validate_upload(last.file) = "ok"

TopCells ==
    [n \in 1..(2 * Len(LastWb.top)) |->
        IF n % 2 = 1 THEN [side |-> LastWb.top[(n + 1) \div 2].l, left |-> TRUE]
        ELSE [side |-> LastWb.top[n \div 2].r, left |-> FALSE]]

\* The cell names the post id: it carries an activity URN with that id.
Names(cell, id) == cell.side.url.sub = "activity" /\ cell.side.url.num = id

\* The cell is one the parser takes: a URL with a date that parses.
Taken(cell) == cell.side.url.http /\ cell.side.date # NoDate

\* The value the last cell of S supplies, 0 when S is empty.
LastVal(S) == IF S = {} THEN 0 ELSE TopCells[SetMax(S)].side.val

\* One record per id named by a cell that satisfies Counts, with the
\* engagements of the last such cell on the left, the impressions of the
\* last such cell on the right, and the quotient of the two as rate.
OneRecordPerId(Counts(_)) ==
    LET ids == {TopCells[n].side.url.num :
                    n \in {m \in DOMAIN TopCells :
                              /\ TopCells[m].side.url.sub = "activity"
                              /\ Counts(TopCells[m])}}
        P == last.parsed.posts
    IN  /\ Len(P) = Cardinality(ids)
        /\ \A id \in ids :
              \E i \in 1..Len(P) :
                 /\ P[i].lid = id
                 /\ P[i].react =
                      LastVal({n \in DOMAIN TopCells :
                                 /\ Names(TopCells[n], id) /\ Counts(TopCells[n])
                                 /\ TopCells[n].left})
                 /\ P[i].imp =
                      LastVal({n \in DOMAIN TopCells :
                                 /\ Names(TopCells[n], id) /\ Counts(TopCells[n])
                                 /\ ~TopCells[n].left})
                 /\ P[i].er = IF P[i].imp = 0 THEN Rate(0, 0)
                              ELSE Rate(P[i].react, P[i].imp)

Coerced(cell, pct) ==
    CASE cell.kind = "number" -> pct = cell.n
      [] cell.kind = "less than" -> pct = 50
      [] cell.kind = "percent" -> pct = cell.n * 100
      [] cell.kind \in {"text", "none"} -> pct = 0
      [] OTHER -> TRUE

\* C24: on the same rows the DEMOGRAPHICS parser and the TOP DEMOGRAPHICS
\* parser give every percentage cell the same value, and that value is the
\* one of the rule: the number as it is, 0.005 for a text containing "<",
\* the parsed number divided by 100 for a text ending in "%", 0.0 for a
\* value that does not parse.
C24_SamePercentageRule ==
    last.op = "demographics" =>
        LET rows == last.file.content.wb.dem
        IN  /\ Len(last.ret.aggregate) = Len(rows)
            /\ Len(last.ret.per_post) = Len(rows)
            /\ \A i \in 1..Len(rows) :
                  /\ last.ret.aggregate[i].pct = last.ret.per_post[i].pct
                  /\ Coerced(rows[i].pct, last.ret.aggregate[i].pct)
                  /\ Coerced(rows[i].pct, last.ret.per_post[i].pct)

\* ------------------------------------------------- properties of URN ids
URN_SUBTYPES == {"share", "ugcPost", "activity"}

\* C25: both URN extractions of the ingestion parsers return the trailing
\* numeric id of a URL that carries a share, a ugcPost or an activity URN,
\* and a TOP POSTS cell with such a URL and a date that parses yields a post
\* record with that id.
C25_ThreeSubtypes ==
    Parsed /\ last.exc = "none" =>
        \A n \in DOMAIN TopCells :
            LET side == TopCells[n].side
            IN  side.url.http /\ side.url.sub \in URN_SUBTYPES =>
                    /\ _extract_activity_id(side.url) = side.url.num
                    /\ _extract_urn_from_url(side.url) = side.url.num
                    /\ side.date # NoDate =>
                          \E i \in 1..Len(last.parsed.posts) :
                              last.parsed.posts[i].lid = side.url.num

\* ---------------------------------------------- get_valid_access_token
\* The thread reads the row and the clock and returns on the fast path, or
\* goes to wait for _refresh_lock.
GetValidAccessToken(i) ==
    /\ oauth.th[i].pc = "idle"
    /\ oauth' = [oauth EXCEPT !.th[i] =
           IF ~oauth.row.present
           THEN [IdleThread EXCEPT !.pc = "done"]
           ELSE IF StillValid(oauth.row, oauth.clock)
           THEN [IdleThread EXCEPT !.pc = "done", !.now = oauth.clock,
                                   !.ret = oauth.row.access_token]
           ELSE [IdleThread EXCEPT !.pc = "waiting", !.now = oauth.clock,
                                   !.refresh_expires_at =
                                       oauth.row.refresh_token_expires_at]]
    /\ UNCHANGED <<db, today, last, prev, nops, tx, pc, sess, writer, dedup>>

\* The thread takes the lock, reads the row again and checks it against the
\* time it read at the start; it keeps the lock only if it goes on to refresh.
AcquireRefreshLock(i) ==
    /\ oauth.th[i].pc = "waiting"
    /\ oauth.lock = 0
    /\ \E d \in {InLock(oauth.row, oauth.th[i].now,
                        oauth.th[i].refresh_expires_at)} :
         oauth' =
           IF d = "refresh"
           THEN [oauth EXCEPT !.lock = i, !.th[i].pc = "refreshing",
                              !.th[i].seen = Len(oauth.refreshes)]
           ELSE [oauth EXCEPT !.th[i].pc = "done",
                              !.th[i].seen = Len(oauth.refreshes),
                              !.th[i].ret = IF d = "return"
                                            THEN oauth.row.access_token
                                            ELSE NoAccess]
    /\ UNCHANGED <<db, today, last, prev, nops, tx, pc, sess, writer, dedup>>

\* refresh_access_token answers or raises; on an answer store_tokens writes
\* the row with the clock of that moment. The lock is released on the way out.
RefreshAccessToken(i, token_response) ==
    /\ oauth.th[i].pc = "refreshing"
    /\ \E row \in {IF token_response.ok
                   THEN store_tokens(oauth.row, token_response, oauth.clock)
                   ELSE oauth.row} :
         oauth' = [oauth EXCEPT
             !.row = row,
             !.lock = 0,
             !.refreshes = Append(@, [ok |-> token_response.ok, row |-> row,
                                      thread |-> i]),
             !.th[i].pc = "done",
             !.th[i].ret = IF token_response.ok THEN row.access_token
                           ELSE NoAccess]
    /\ UNCHANGED <<db, today, last, prev, nops, tx, pc, sess, writer, dedup>>

\* Two minutes pass.
OauthTick ==
    /\ nops < MaxOps
    /\ nops' = nops + 1
    /\ oauth' = [oauth EXCEPT !.clock = @ + 120]
    /\ UNCHANGED <<db, today, last, prev, tx, pc, sess, writer, dedup>>

\* The answers of the token endpoint: an error, the usual sixty days, and a
\* token that is good for no longer than the buffer.
TokenResponses ==
    {OAuthTokenExchangeError,
     TokenResponse(_ACCESS_TOKEN_LIFETIME_SECONDS),
     TokenResponse(_REFRESH_BUFFER_SECONDS)}

OauthEpoch == 1000

\* The stored row when the threads arrive: none, an access token that is
\* expired, at the edge of the buffer or fresh, with a refresh token that is
\* good or expired.
OauthRows ==
    {NoRow} \cup
    {OAuthToken(1, OauthEpoch + a, OauthEpoch + r) :
        a \in {-10, _REFRESH_BUFFER_SECONDS, _ACCESS_TOKEN_LIFETIME_SECONDS},
        r \in {0, 200, _REFRESH_TOKEN_LIFETIME_SECONDS}}

InitO ==
    /\ db = EmptyDb
    /\ today = 1
    /\ last = NoCall
    /\ prev = EmptyDb
    /\ nops = 0
    /\ tx = EmptyDb
    /\ pc = <<>>
    /\ sess = NoSessions
    /\ writer = 0
    /\ oauth \in {OauthState(row, OauthEpoch) : row \in OauthRows}
    /\ dedup = NoDedup

NextO ==
    \/ \E i \in Threads : GetValidAccessToken(i)
    \/ \E i \in Threads : AcquireRefreshLock(i)
    \/ \E i \in Threads, r \in TokenResponses : RefreshAccessToken(i, r)
    \/ OauthTick

SpecO == InitO /\ [][NextO]_vars

\* ------------------------------------------------------------ _check_dedup
CheckDedup(content_hash) ==
    /\ nops < MaxOps
    /\ nops' = nops + 1
    /\ \E res \in {_check_dedup(dedup.cache, content_hash, dedup.now)} :
         dedup' = [dedup EXCEPT
             !.cache = res.cache,
             !.content_hash = content_hash,
             !.ret = res.ret,
             !.inserted[content_hash] = IF res.ret THEN @ ELSE dedup.now,
             !.evicted = IF ~res.ret /\ Len(PurgeExpired(dedup.cache, dedup.now))
                                        >= DedupCapacity
                         THEN @ + 1 ELSE @]
    /\ UNCHANGED <<db, today, last, prev, tx, pc, sess, writer, oauth>>

\* Time passes between two calls.
DedupWait(seconds) ==
    /\ nops < MaxOps
    /\ nops' = nops + 1
    /\ dedup' = [dedup EXCEPT !.now = @ + seconds, !.content_hash = 0,
                              !.ret = FALSE]
    /\ UNCHANGED <<db, today, last, prev, tx, pc, sess, writer, oauth>>

DedupWaits == {30, _DEDUP_WINDOW_SECONDS, _DEDUP_WINDOW_SECONDS + 1}

InitQ ==
    /\ db = EmptyDb
    /\ today = 1
    /\ last = NoCall
    /\ prev = EmptyDb
    /\ nops = 0
    /\ tx = EmptyDb
    /\ pc = <<>>
    /\ sess = NoSessions
    /\ writer = 0
    /\ oauth = NoOauth
    /\ dedup \in {Prefilled(n) : n \in {0, DedupCapacity - 1, DedupCapacity}}

NextQ ==
    \/ \E h \in DedupHashes : CheckDedup(h)
    \/ \E s \in DedupWaits : DedupWait(s)

SpecQ == InitQ /\ [][NextQ]_vars

C27_DedupBounded ==
    /\ Len(dedup.cache) <= DedupCapacity
    /\ dedup.ret =>
         /\ dedup.inserted[dedup.content_hash] # Never
         /\ dedup.now - dedup.inserted[dedup.content_hash]
                <= _DEDUP_WINDOW_SECONDS

\* A duplicate reported at exactly sixty seconds, in a cache that has evicted
\* an entry at capacity.
C27_Witness ==
    /\ dedup.ret
    /\ dedup.now - dedup.inserted[dedup.content_hash] = _DEDUP_WINDOW_SECONDS
    /\ dedup.evicted > 0

\* ---------------------------------------------------------------- C28
\* Every stored post came from an aggregate import: it carries an activity
\* id and nothing was written to it by the application.
FromAggregate(posts) ==
    \A k \in 1..Len(posts) :
        posts[k].lid \in ActIds /\ posts[k].content = NULL
                                /\ posts[k].draft_id = NULL

\* C28: after every aggregate import into a database filled by aggregate
\* imports only, each record that carries an external id has a stored post
\* with that id: no record was merged into a post that carries another id,
\* and records of distinct ids are in distinct rows.
C28_DistinctIdsDistinctRows ==
    (Imported /\ LastFormat = "aggregate" /\ FromAggregate(prev.posts)) =>
        \A n \in 1..Len(LastParsedPosts) :
            Truthy(LastParsedPosts[n].lid) =>
                \E k \in 1..Len(db.posts) :
                    db.posts[k].lid = LastParsedPosts[n].lid

\* ---------------------------------------------------------------- C29
\* C29: once a call of ingest_file is over, by return, exception or death of
\* the process, the durable records differ from those before the call only
\* if an Upload row with the hash of the file is durable too.
C29_RecordsWithProvenance ==
    (Ingested /\ pc = <<>> /\ Records(db) # Records(prev)) =>
        UploadWithHash(db, compute_file_hash(last.file)) # 0

\* ------------------------------------------- two uploads of the same bytes
\* ingest_file up to the loop over the posts, in a session of its own: the
\* duplicate check reads the committed Upload rows and ends the call when it
\* finds the hash.
SBegin(i, file) ==
    /\ sess[i].pc = "idle"
    /\ \E p \in {Prepare(db, file, today)} :
        /\ p.exc \in {"none", "DuplicateFileError"}
        /\ sess' = [sess EXCEPT ![i] =
               IF p.exc = "DuplicateFileError"
               THEN [pc |-> "duplicate", file |-> file]
               ELSE [pc |-> "loaded", file |-> file, r |-> p.parsed.posts[1],
                     k |-> MatchPost(db.posts, p.parsed.posts[1]),
                     loaded |-> IF MatchPost(db.posts, p.parsed.posts[1]) # 0
                                THEN db.posts[MatchPost(db.posts, p.parsed.posts[1])]
                                ELSE BlankPost,
                     merged |-> IF MatchPost(db.posts, p.parsed.posts[1]) # 0
                                THEN MergePost(db.posts[MatchPost(db.posts,
                                                   p.parsed.posts[1])],
                                               p.parsed.posts[1])
                                ELSE NewPost(p.parsed.posts[1])]]
    /\ UNCHANGED <<db, today, last, prev, nops, tx, pc, writer, oauth, dedup>>

\* The Upload row is added and committed after the records; the unique
\* constraint on file_hash refuses it when the hash is stored by now, and
\* the commit raises IntegrityError.
SUpload(i) ==
    /\ sess[i].pc = "committed"
    /\ writer = 0
    /\ db' = IF UploadWithHash(db, compute_file_hash(sess[i].file)) # 0
             THEN db
             ELSE [db EXCEPT !.uploads =
                      Append(db.uploads,
                             NewUpload("export.xlsx",
                                       compute_file_hash(sess[i].file), 1))]
    /\ sess' = [sess EXCEPT ![i].pc =
                   IF UploadWithHash(db, compute_file_hash(sess[i].file)) # 0
                   THEN "refused" ELSE "done"]
    /\ UNCHANGED <<today, last, prev, nops, tx, pc, writer, oauth, dedup>>

NextI ==
    \/ \E i \in Sessions, f \in ConcurrentFiles : SBegin(i, f)
    \/ \E i \in Sessions : CFlush(i)
    \/ \E i \in Sessions : CBusy(i)
    \/ \E i \in Sessions : CCommit(i)
    \/ \E i \in Sessions : SUpload(i)

SpecI == InitC /\ [][NextI]_vars

\* ---------------------------------------------------------------- C30
\* Both calls are over and were given the same bytes.
BothOverSameBytes ==
    /\ \A i \in Sessions : sess[i].pc \in {"done", "duplicate", "failed", "refused"}
    /\ sess[1].file = sess[2].file

\* C30: of two calls of ingest_file on the same bytes one ends with its
\* records and its Upload row committed and the other with
\* DuplicateFileError, which it raises before it writes.
C30_OneImportOneDuplicate ==
    BothOverSameBytes =>
        \E i, j \in Sessions :
            sess[i].pc = "done" /\ sess[j].pc = "duplicate"

====
